---- MODULE Spec2Model ----
(***************************************************************************)
(* Model of llm-consolidate-code.py: the staged compression pipeline       *)
(* (compress_file_content) and the file classifier (FileClassifier).       *)
(* Text is modelled character by character: a Python str is a TLA+ string, *)
(* a list of lines is a sequence of strings.                               *)
(***************************************************************************)
EXTENDS Integers, Sequences, FiniteSets, TLC

VARIABLES content, calls, cpath, cname, cresults, classifier,
          pc, args, folder_path, faults, tokenizer, pending, todo, visited,
          files_to_process, stats, next_file, processed_files, compress_log,
          output_content, output_tokens, output_file, exit_code

vars == <<content, calls, cpath, cname, cresults, classifier,
          pc, args, folder_path, faults, tokenizer, pending, todo, visited,
          files_to_process, stats, next_file, processed_files, compress_log,
          output_content, output_tokens, output_file, exit_code>>

(***************************************************************************)
(* Python str primitives                                                   *)
(***************************************************************************)

LowerAlpha == "abcdefghijklmnopqrstuvwxyz"

UpperAlpha == "ABCDEFGHIJKLMNOPQRSTUVWXYZ"

DigitChars == "0123456789"

Ch(s, i) == SubSeq(s, i, i)

CharsOf(s) == {Ch(s, i) : i \in 1..Len(s)}

LowerSet == CharsOf(LowerAlpha)

UpperSet == CharsOf(UpperAlpha)

DigitSet == CharsOf(DigitChars)

\* str.isspace / regex \s on the characters a line or a file name can hold
IsSpace(c) == c \in {" ", "\t", "\n", "\r", "\f"}

\* regex \w
IsWordChar(c) == c \in LowerSet \cup UpperSet \cup DigitSet \cup {"_"}

AlphaIndex(alpha, c) == CHOOSE i \in 1..Len(alpha) : Ch(alpha, i) = c

UpperCh(c) == IF c \in LowerSet THEN Ch(UpperAlpha, AlphaIndex(LowerAlpha, c)) ELSE c

LowerCh(c) == IF c \in UpperSet THEN Ch(LowerAlpha, AlphaIndex(UpperAlpha, c)) ELSE c

RECURSIVE StrUpper(_)
StrUpper(s) == IF Len(s) = 0 THEN "" ELSE UpperCh(Ch(s, 1)) \o StrUpper(SubSeq(s, 2, Len(s)))

RECURSIVE StrLower(_)
StrLower(s) == IF Len(s) = 0 THEN "" ELSE LowerCh(Ch(s, 1)) \o StrLower(SubSeq(s, 2, Len(s)))

\* number of leading whitespace characters
RECURSIVE LeadingSpaces(_)
LeadingSpaces(s) ==
    IF Len(s) = 0 \/ ~IsSpace(Ch(s, 1)) THEN 0
    ELSE 1 + LeadingSpaces(SubSeq(s, 2, Len(s)))

\* number of trailing whitespace characters
RECURSIVE TrailingSpaces(_)
TrailingSpaces(s) ==
    IF Len(s) = 0 \/ ~IsSpace(Ch(s, Len(s))) THEN 0
    ELSE 1 + TrailingSpaces(SubSeq(s, 1, Len(s) - 1))

LStrip(s) == SubSeq(s, LeadingSpaces(s) + 1, Len(s))

RStrip(s) == SubSeq(s, 1, Len(s) - TrailingSpaces(s))

Strip(s) == LStrip(RStrip(s))

StartsWith(s, p) == Len(s) >= Len(p) /\ SubSeq(s, 1, Len(p)) = p

EndsWith(s, p) == Len(s) >= Len(p) /\ SubSeq(s, Len(s) - Len(p) + 1, Len(s)) = p

\* positions at which p occurs in s
Occurrences(s, p) == {i \in 1..(Len(s) - Len(p) + 1) : SubSeq(s, i, i + Len(p) - 1) = p}

\* p in s
Contains(s, p) == Occurrences(s, p) # {}

\* s.find(p) + 1, or 0
Find(s, p) ==
    IF Contains(s, p) THEN CHOOSE i \in Occurrences(s, p) : \A j \in Occurrences(s, p) : i <= j
    ELSE 0

\* s.count(p): non-overlapping occurrences, scanning left to right
RECURSIVE StrCount(_, _)
StrCount(s, p) ==
    IF ~Contains(s, p) THEN 0
    ELSE 1 + StrCount(SubSeq(s, Find(s, p) + Len(p), Len(s)), p)

\* ' ' * n
RECURSIVE Spaces(_)
Spaces(n) == IF n <= 0 THEN "" ELSE " " \o Spaces(n - 1)

\* positions of the line-break characters of s
BreakPositions(s) == {i \in 1..Len(s) : Ch(s, i) \in {"\n", "\r"}}

\* str.splitlines(): breaks at \n, \r and \r\n; no empty line after a final break
RECURSIVE SplitLines(_)
SplitLines(s) ==
    IF Len(s) = 0 THEN <<>>
    ELSE IF BreakPositions(s) = {} THEN <<s>>
    ELSE LET b == CHOOSE i \in BreakPositions(s) : \A j \in BreakPositions(s) : i <= j
             n == IF Ch(s, b) = "\r" /\ b < Len(s) /\ Ch(s, b + 1) = "\n" THEN b + 2 ELSE b + 1
         IN  <<SubSeq(s, 1, b - 1)>> \o SplitLines(SubSeq(s, n, Len(s)))

\* '\n'.join(lines)
RECURSIVE JoinLines(_)
JoinLines(lines) ==
    IF Len(lines) = 0 THEN ""
    ELSE IF Len(lines) = 1 THEN lines[1]
    ELSE lines[1] \o "\n" \o JoinLines(Tail(lines))

(***************************************************************************)
(* Python float (IEEE 754 binary64) on the values the stats hold.  A float  *)
(* is its sign, its 53 significant bits, most significant first and the    *)
(* first one 1, and the exponent of that first bit; 0.0 has no bits.       *)
(***************************************************************************)

\* significant bits of a binary64 value
MantissaBits == 53

FloatZero == [sign |-> 1, bits |-> <<>>, exp |-> 0]

Front(seq) == SubSeq(seq, 1, Len(seq) - 1)

Zeros(n) == [i \in 1..n |-> 0]

RECURSIVE Pow2(_)
Pow2(k) == IF k = 0 THEN 1 ELSE 2 * Pow2(k - 1)

Min(a, b) == IF a <= b THEN a ELSE b

\* the digits are handled in groups of this many, each group an int
GroupBits == (MantissaBits + 1) \div 3

\* the w low binary digits of a non-negative int, most significant first
FixedBits(n, w) == [i \in 1..w |-> (n \div Pow2(w - i)) % 2]

\* the number of binary digits of a non-negative int
BitLength(n) ==
    CHOOSE w \in 0..30 : n < Pow2(w) /\ (w = 0 \/ Pow2(w - 1) <= n)

\* the binary digits of a non-negative int, most significant first
IntBits(n) == FixedBits(n, BitLength(n))

\* the int that a group of binary digits spells
RECURSIVE BitsToInt(_)
BitsToInt(b) ==
    IF b = <<>> THEN 0 ELSE 2 * BitsToInt(Front(b)) + b[Len(b)]

StripLeadingZeros(b) ==
    LET ones == {i \in 1..Len(b) : b[i] = 1}
    IN  IF ones = {} THEN <<>>
        ELSE SubSeq(b, CHOOSE i \in ones : \A j \in ones : i <= j, Len(b))

\* b + 1 on binary digits
IncBits(b) ==
    LET zeros == {i \in 1..Len(b) : b[i] = 0}
    IN  IF zeros = {} THEN <<1>> \o Zeros(Len(b))
        ELSE LET p == CHOOSE i \in zeros : \A j \in zeros : i >= j
             IN  [i \in 1..Len(b) |-> IF i < p THEN b[i] ELSE IF i = p THEN 1 ELSE 0]

\* b * n + carry on binary digits, n a small int
RECURSIVE MulBits(_, _, _)
MulBits(b, n, carry) ==
    IF b = <<>> THEN IntBits(carry)
    ELSE LET c == Min(Len(b), GroupBits)
             low == SubSeq(b, Len(b) - c + 1, Len(b))
             t == BitsToInt(low) * n + carry
         IN  MulBits(SubSeq(b, 1, Len(b) - c), n, t \div Pow2(c))
                 \o FixedBits(t % Pow2(c), c)

\* the float nearest to int(b) * 2^unit, ties to the even mantissa
RoundToFloat(b, unit) ==
    LET s == StripLeadingZeros(b)
        L == Len(s)
    IN  IF L = 0 THEN FloatZero
        ELSE IF L <= MantissaBits
        THEN [sign |-> 1, bits |-> s \o Zeros(MantissaBits - L), exp |-> unit + L - 1]
        ELSE LET kept == SubSeq(s, 1, MantissaBits)
                 guard == s[MantissaBits + 1]
                 sticky == \E i \in (MantissaBits + 2)..L : s[i] = 1
                 up == guard = 1 /\ (sticky \/ kept[MantissaBits] = 1)
                 r == IF up THEN IncBits(kept) ELSE kept
             IN  IF Len(r) > MantissaBits
                 THEN [sign |-> 1, bits |-> SubSeq(r, 1, MantissaBits), exp |-> unit + L]
                 ELSE [sign |-> 1, bits |-> r, exp |-> unit + L - 1]

FloatOfInt(n) == RoundToFloat(IntBits(n), 0)

\* the next n binary digits of r / b, for r < b, and the remainder left
RECURSIVE FractionBits(_, _, _)
FractionBits(r, b, n) ==
    IF n = 0 THEN [bits |-> <<>>, rem |-> r]
    ELSE LET c == Min(n, GroupBits)
             t == r * Pow2(c)
             rest == FractionBits(t % b, b, n - c)
         IN  [bits |-> FixedBits(t \div b, c) \o rest.bits, rem |-> rest.rem]

\* the least k with a * 2^k >= b
RECURSIVE ShiftToReach(_, _)
ShiftToReach(a, b) == IF a >= b THEN 0 ELSE 1 + ShiftToReach(2 * a, b)

\* a / b for ints a >= 0, b > 0: true division, correctly rounded
FloatDiv(a, b) ==
    IF a = 0 THEN FloatZero
    ELSE LET k == ShiftToReach(a, b)
             n == a * Pow2(k)
             f == FractionBits(n % b, b, MantissaBits + 1)
             sticky == IF f.rem = 0 THEN 0 ELSE 1
         IN  RoundToFloat(IntBits(n \div b) \o f.bits \o <<sticky>>,
                          0 - k - (MantissaBits + 1) - 1)

\* -x for a float x > 0
FloatNeg(x) == [x EXCEPT !.sign = 0 - x.sign]

\* 1 - x for a float x >= 0; above 1 the difference x - 1 is exact
FloatOneMinus(x) ==
    IF x = FloatZero THEN FloatOfInt(1)
    ELSE IF x = FloatOfInt(1) THEN FloatZero
    ELSE IF x.exp >= 0
    THEN FloatNeg(RoundToFloat(
             FixedBits(BitsToInt(SubSeq(x.bits, 1, x.exp + 1)) - 1, x.exp + 1)
                 \o SubSeq(x.bits, x.exp + 2, MantissaBits),
             x.exp - (MantissaBits - 1)))
    ELSE LET n == (MantissaBits - 1) - x.exp
             padded == Zeros(n - MantissaBits) \o x.bits
             inverted == [i \in 1..n |-> 1 - padded[i]]
         IN  RoundToFloat(IncBits(inverted), x.exp - (MantissaBits - 1))

\* x * n for a float x and an int n >= 0
FloatMulInt(x, n) ==
    IF x = FloatZero \/ n = 0 THEN FloatZero
    ELSE [RoundToFloat(MulBits(x.bits, n, 0), x.exp - (MantissaBits - 1))
             EXCEPT !.sign = x.sign]

Max(a, b) == IF a >= b THEN a ELSE b

\* a + b + carry on binary digits of equal length
RECURSIVE AddBits(_, _, _)
AddBits(a, b, carry) ==
    IF a = <<>> THEN IntBits(carry)
    ELSE LET c == Min(Len(a), GroupBits)
             t == BitsToInt(SubSeq(a, Len(a) - c + 1, Len(a)))
                  + BitsToInt(SubSeq(b, Len(b) - c + 1, Len(b))) + carry
         IN  AddBits(SubSeq(a, 1, Len(a) - c), SubSeq(b, 1, Len(b) - c), t \div Pow2(c))
                 \o FixedBits(t % Pow2(c), c)

\* x + y for floats x, y >= 0
FloatAdd(x, y) ==
    IF x = FloatZero THEN y
    ELSE IF y = FloatZero THEN x
    ELSE LET lo == Min(x.exp, y.exp)
             xb == x.bits \o Zeros(x.exp - lo)
             yb == y.bits \o Zeros(y.exp - lo)
             n == Max(Len(xb), Len(yb))
         IN  RoundToFloat(AddBits(Zeros(n - Len(xb)) \o xb, Zeros(n - Len(yb)) \o yb, 0),
                          lo - (MantissaBits - 1))

\* int(x) for a float x >= 0
FloatToInt(x) ==
    IF x = FloatZero \/ x.exp < 0 THEN 0
    ELSE BitsToInt(SubSeq(x.bits, 1, x.exp + 1))

(***************************************************************************)
(* estimate_tokens                                                         *)
(***************************************************************************)

\* len(re.findall(r'\b\w+\b', text)): the maximal runs of word characters
WordCount(text) ==
    Cardinality({i \in 1..Len(text) :
        IsWordChar(Ch(text, i)) /\ (i = 1 \/ ~IsWordChar(Ch(text, i - 1)))})

\* len(re.findall(r'[^\w\s]', text))
SpecialCharCount(text) ==
    Cardinality({i \in 1..Len(text) :
        ~IsWordChar(Ch(text, i)) /\ ~IsSpace(Ch(text, i))})

\* len(re.findall(r'\s+', text)): the maximal runs of whitespace
WhitespaceCount(text) ==
    Cardinality({i \in 1..Len(text) :
        IsSpace(Ch(text, i)) /\ (i = 1 \/ ~IsSpace(Ch(text, i - 1)))})

\* max(1, int(words + (special_chars * 0.7) + (whitespace * 0.3)))
HeuristicTokens(text) ==
    LET estimated_tokens ==
            FloatAdd(FloatAdd(FloatOfInt(WordCount(text)),
                              FloatMulInt(FloatDiv(7, 10), SpecialCharCount(text))),
                     FloatMulInt(FloatDiv(3, 10), WhitespaceCount(text)))
    IN  Max(1, FloatToInt(estimated_tokens))

\* what TOKENIZER.encode(text) does: it raises, or returns this many tokens
EncodeOutcomes == {[raises |-> TRUE, tokens |-> 0], [raises |-> FALSE, tokens |-> 7]}

\* the estimate with a guarded encoder: when the encoder is missing or raises,
\* the heuristic answers
estimate_tokens_Guarded(text, available, encoded) ==
    IF available /\ ~encoded.raises
    THEN [raised |-> FALSE, tokens |-> encoded.tokens]
    ELSE [raised |-> FALSE, tokens |-> HeuristicTokens(text)]

\* estimate_tokens(text): the int returned, or the exception of the encoder,
\* which the function does not catch
estimate_tokens(text, available, encoded) ==
    IF available
    THEN [raised |-> encoded.raises, tokens |-> encoded.tokens]
    ELSE [raised |-> FALSE, tokens |-> HeuristicTokens(text)]

(***************************************************************************)
(* compress_file_content                                                   *)
(***************************************************************************)

\* stats = defaultdict(int): every counter reads 0 until it is incremented
ZeroStats ==
    [original_lines |-> 0, empty_lines_removed |-> 0, comments_removed |-> 0,
     debug_statements_removed |-> 0, function_lines_compressed |-> 0,
     test_functions_removed |-> 0, docstrings_removed |-> 0,
     type_hints_removed |-> 0, all_comments_removed |-> 0,
     final_lines |-> 0, lines_removed |-> 0, compression_ratio |-> FloatZero]

\* len(line) - len(line.lstrip())
Indent(line) == Len(line) - Len(LStrip(line))

\* ---- Level 1: extra empty lines and trailing whitespace ----

\* mutant: a line with text keeps its trailing whitespace
RECURSIVE L1ScanKeepTrailing(_, _, _, _, _)
L1ScanKeepTrailing(lines, i, result, consecutive_empty, st) ==
    IF i > Len(lines) THEN [lines |-> result, stats |-> st]
    ELSE IF RStrip(lines[i]) # ""
         THEN L1ScanKeepTrailing(lines, i + 1, Append(result, lines[i]), 0, st)
         ELSE IF consecutive_empty = 0
              THEN L1ScanKeepTrailing(lines, i + 1, Append(result, ""),
                                      consecutive_empty + 1, st)
              ELSE L1ScanKeepTrailing(lines, i + 1, result, consecutive_empty + 1,
                                      [st EXCEPT !.empty_lines_removed = @ + 1])

\* for line in lines: line = line.rstrip(); keep it, or the first empty line
\* of a run, and count the other empty lines
RECURSIVE L1Scan(_, _, _, _, _)
L1Scan(lines, i, result, consecutive_empty, st) ==
    IF i > Len(lines) THEN [lines |-> result, stats |-> st]
    ELSE LET line == RStrip(lines[i]) IN
         IF line # ""
         THEN L1Scan(lines, i + 1, Append(result, line), 0, st)
         ELSE IF consecutive_empty = 0
              THEN L1Scan(lines, i + 1, Append(result, ""), consecutive_empty + 1, st)
              ELSE L1Scan(lines, i + 1, result, consecutive_empty + 1,
                          [st EXCEPT !.empty_lines_removed = @ + 1])

Level1(lines, st) == L1Scan(lines, 1, <<>>, 0, st)

\* ---- Level 2: comments, debug statements, function bodies ----

CommentStarts == {"#", "//", "/*"}

KeepKeywords == {"TODO", "FIXME", "HACK", "BUG", "NOTE", "IMPORTANT"}

\* mutant: the kept keywords are not looked at
IsRemovableCommentAny(stripped) == \E m \in CommentStarts : StartsWith(stripped, m)

\* mutant: the keywords are looked for in the text as written (no upper())
IsRemovableCommentAsWritten(stripped) ==
    /\ \E m \in CommentStarts : StartsWith(stripped, m)
    /\ ~ \E kw \in KeepKeywords : Contains(stripped, kw)

\* stripped.startswith(('#', '//', '/*')) and not any(kw in stripped.upper() ...)
IsRemovableComment(stripped) ==
    /\ \E m \in CommentStarts : StartsWith(stripped, m)
    /\ ~ \E kw \in KeepKeywords : Contains(StrUpper(stripped), kw)

DebugCalls == {"print", "console.log", "console.debug", "console.info",
               "println", "printf", "puts"}

\* re.match(r'^[\s]*(print|console\.(log|debug|info)|println|printf|puts)\s*\(', line)
IsDebugStatement(line) ==
    LET rest == LStrip(line) IN
    \E w \in DebugCalls :
        /\ StartsWith(rest, w)
        /\ StartsWith(LStrip(SubSeq(rest, Len(w) + 1, Len(rest))), "(")

FunctionKeywords == {"def", "function", "func", "fn", "sub", "method"}

\* re.match(r'^[\s]*(def|function|func|fn|sub|method)\s+\w+', line)
IsFunctionDef(line) ==
    LET rest == LStrip(line) IN
    \E w \in FunctionKeywords :
        /\ StartsWith(rest, w)
        /\ LET after == SubSeq(rest, Len(w) + 1, Len(rest)) IN
           /\ LeadingSpaces(after) >= 1
           /\ Len(LStrip(after)) >= 1
           /\ IsWordChar(Ch(LStrip(after), 1))

\* the inner while of the body count: first j >= from at which the span stops
RECURSIVE BodyEnd(_, _, _)
BodyEnd(lines, j, indent) ==
    IF j > Len(lines) THEN j
    ELSE IF Strip(lines[j]) # "" /\ Indent(lines[j]) <= indent THEN j
    ELSE BodyEnd(lines, j + 1, indent)

\* if body_lines > 10
LargeBodyThreshold == 10

\* f"{' ' * (indent + 4)}# ... {body_lines} lines ..."
SummaryLine(indent, body_lines) ==
    Spaces(indent + 4) \o "# ... " \o ToString(body_lines) \o " lines ..."

\* mutant: function_lines_compressed counts the whole body, summary line or not
FunctionBlockCountsBody(lines, i) ==
    LET line == lines[i]
        indent == Indent(line)
        j == BodyEnd(lines, i + 1, indent)
        body_lines == j - (i + 1)
    IN  IF body_lines > LargeBodyThreshold
        THEN [emit |-> <<line, SummaryLine(indent, body_lines)>>, next |-> j,
              compressed |-> body_lines]
        ELSE [emit |-> <<line>> \o SubSeq(lines, i + 1, j - 1), next |-> j,
              compressed |-> 0]

\* mutant: the summary counts the definition line with the body
FunctionBlockCountsDef(lines, i) ==
    LET line == lines[i]
        indent == Indent(line)
        j == BodyEnd(lines, i + 1, indent)
        body_lines == j - i
    IN  IF body_lines - 1 > LargeBodyThreshold
        THEN [emit |-> <<line, SummaryLine(indent, body_lines)>>, next |-> j,
              compressed |-> body_lines - 1]
        ELSE [emit |-> <<line>> \o SubSeq(lines, i + 1, j - 1), next |-> j,
              compressed |-> 0]

\* mutant: bodies of exactly 10 lines are compacted too (>= for >)
FunctionBlockFromTen(lines, i) ==
    LET line == lines[i]
        indent == Indent(line)
        j == BodyEnd(lines, i + 1, indent)
        body_lines == j - (i + 1)
    IN  IF body_lines >= LargeBodyThreshold
        THEN [emit |-> <<line, SummaryLine(indent, body_lines)>>, next |-> j,
              compressed |-> body_lines - 1]
        ELSE [emit |-> <<line>> \o SubSeq(lines, i + 1, j - 1), next |-> j,
              compressed |-> 0]

\* mutant: a large body is summarised but the scan does not skip it (i = j lost)
FunctionBlockNoSkip(lines, i) ==
    LET line == lines[i]
        indent == Indent(line)
        j == BodyEnd(lines, i + 1, indent)
        body_lines == j - (i + 1)
    IN  IF body_lines > LargeBodyThreshold
        THEN [emit |-> <<line, SummaryLine(indent, body_lines)>>, next |-> i + 1,
              compressed |-> body_lines - 1]
        ELSE [emit |-> <<line>> \o SubSeq(lines, i + 1, j - 1), next |-> j,
              compressed |-> 0]

\* the function branch at lines[i]: what it appends to result, where the scan
\* resumes (i = j), and what it adds to function_lines_compressed
FunctionBlock(lines, i) ==
    LET line == lines[i]
        indent == Indent(line)
        j == BodyEnd(lines, i + 1, indent)
        body_lines == j - (i + 1)
    IN  IF body_lines > LargeBodyThreshold
        THEN [emit |-> <<line, SummaryLine(indent, body_lines)>>, next |-> j,
              compressed |-> body_lines - 1]
        ELSE [emit |-> <<line>> \o SubSeq(lines, i + 1, j - 1), next |-> j,
              compressed |-> 0]

RECURSIVE L2Scan(_, _, _, _)
L2Scan(lines, i, result, st) ==
    IF i > Len(lines) THEN [lines |-> result, stats |-> st]
    ELSE LET line == lines[i]
             stripped == Strip(line)
         IN
         IF IsRemovableComment(stripped)
         THEN L2Scan(lines, i + 1, result, [st EXCEPT !.comments_removed = @ + 1])
         ELSE IF IsDebugStatement(line)
         THEN L2Scan(lines, i + 1, result, [st EXCEPT !.debug_statements_removed = @ + 1])
         ELSE IF IsFunctionDef(line)
         THEN LET f == FunctionBlock(lines, i) IN
              L2Scan(lines, f.next, result \o f.emit,
                     [st EXCEPT !.function_lines_compressed = @ + f.compressed])
         ELSE L2Scan(lines, i + 1, Append(result, line), st)

Level2(lines, st) == L2Scan(lines, 1, <<>>, st)

\* ---- Level 3: docstrings, test functions, type hints ----

TestDefKeywords == {"def", "function", "func"}

\* re.match(r'^[\s]*(def|function|func)\s*(test_|_test|test[A-Z])', line)
IsTestFunctionDef(line) ==
    LET rest == LStrip(line) IN
    \E w \in TestDefKeywords :
        /\ StartsWith(rest, w)
        /\ LET name == LStrip(SubSeq(rest, Len(w) + 1, Len(rest))) IN
           \/ StartsWith(name, "test_")
           \/ StartsWith(name, "_test")
           \/ (StartsWith(name, "test") /\ Len(name) >= 5 /\ Ch(name, 5) \in UpperSet)

\* while j < len(lines) and (not lines[j].strip() or indent(lines[j]) > indent): j += 1
RECURSIVE TestSpanEnd(_, _, _)
TestSpanEnd(lines, j, indent) ==
    IF j <= Len(lines) /\ (Strip(lines[j]) = "" \/ Indent(lines[j]) > indent)
    THEN TestSpanEnd(lines, j + 1, indent)
    ELSE j

DQ3 == "\"\"\""

SQ3 == "'''"

\* docstring_char = '"""' if '"""' in stripped else "'''"
DocstringChar(stripped) == IF Contains(stripped, DQ3) THEN DQ3 ELSE SQ3

\* end (inclusive) of a match of \s*->\s*[^:]+: starting exactly at i, or 0
ArrowMatchEnd(s, i) ==
    LET w == LeadingSpaces(SubSeq(s, i, Len(s)))
        a == i + w
        p == a + 2
        colons == {q \in p..Len(s) : Ch(s, q) = ":"}
    IN  IF a + 1 <= Len(s) /\ SubSeq(s, a, a + 1) = "->" /\ colons # {}
        THEN LET q == CHOOSE q \in colons : \A r \in colons : q <= r IN
             IF q > p THEN q ELSE 0
        ELSE 0

\* re.sub(r'\s*->\s*[^:]+:', ':', line)
RECURSIVE ArrowSub(_, _)
ArrowSub(s, i) ==
    IF i > Len(s) THEN ""
    ELSE IF ArrowMatchEnd(s, i) > 0 THEN ":" \o ArrowSub(s, ArrowMatchEnd(s, i) + 1)
    ELSE Ch(s, i) \o ArrowSub(s, i + 1)

StripTypeHint(line) == ArrowSub(line, 1)

RECURSIVE L3Scan(_, _, _, _, _, _)
L3Scan(lines, i, result, in_docstring, docstring_char, st) ==
    IF i > Len(lines) THEN [lines |-> result, stats |-> st]
    ELSE LET line == lines[i]
             stripped == Strip(line)
         IN
         IF IsTestFunctionDef(line)
         THEN LET j == TestSpanEnd(lines, i + 1, Indent(line)) IN
              L3Scan(lines, j, result, in_docstring, docstring_char,
                     [st EXCEPT !.test_functions_removed = @ + (j - i)])
         ELSE
         LET opens == ~in_docstring /\ (StartsWith(stripped, DQ3) \/ StartsWith(stripped, SQ3))
             dchar == IF opens THEN DocstringChar(stripped) ELSE docstring_char
         IN
         IF opens /\ StrCount(stripped, dchar) = 2
         THEN L3Scan(lines, i + 1, result, in_docstring, dchar,
                     [st EXCEPT !.docstrings_removed = @ + 1])
         ELSE IF in_docstring \/ opens
         THEN L3Scan(lines, i + 1, result, ~Contains(line, dchar), dchar,
                     [st EXCEPT !.docstrings_removed = @ + 1])
         ELSE IF Contains(line, "def ") /\ Contains(line, "->")
         THEN L3Scan(lines, i + 1, Append(result, StripTypeHint(line)), in_docstring, dchar,
                     [st EXCEPT !.type_hints_removed = @ + 1])
         ELSE L3Scan(lines, i + 1, Append(result, line), in_docstring, dchar, st)

Level3(lines, st) == L3Scan(lines, 1, <<>>, FALSE, "", st)

\* ---- Level 4: all comments, whitespace around operators ----

OperatorChars == {"=", "+", "-", "*", "/"}

\* end (inclusive) of a match of \s*([=+\-*/])\s* starting exactly at i, or 0
OperatorMatchEnd(s, i) ==
    LET w == LeadingSpaces(SubSeq(s, i, Len(s)))
        o == i + w
    IN  IF o <= Len(s) /\ Ch(s, o) \in OperatorChars
        THEN o + LeadingSpaces(SubSeq(s, o + 1, Len(s)))
        ELSE 0

\* re.sub(r'\s*([=+\-*/])\s*', r'\1', line)
RECURSIVE OperatorSub(_, _)
OperatorSub(s, i) ==
    IF i > Len(s) THEN ""
    ELSE IF OperatorMatchEnd(s, i) > 0
         THEN Ch(s, i + LeadingSpaces(SubSeq(s, i, Len(s))))
                  \o OperatorSub(s, OperatorMatchEnd(s, i) + 1)
    ELSE Ch(s, i) \o OperatorSub(s, i + 1)

MinifyOperators(line) == OperatorSub(line, 1)

\* line.split(marker)[0].rstrip()
CodePart(line, marker) == RStrip(SubSeq(line, 1, Find(line, marker) - 1))

RECURSIVE L4Scan(_, _, _, _)
L4Scan(lines, i, result, st) ==
    IF i > Len(lines) THEN [lines |-> result, stats |-> st]
    ELSE LET line == lines[i]
             marker == IF Contains(line, "#") THEN "#"
                       ELSE IF Contains(line, "//") THEN "//" ELSE ""
         IN
         IF marker # ""
         THEN IF CodePart(line, marker) # ""
              THEN L4Scan(lines, i + 1, Append(result, CodePart(line, marker)),
                          [st EXCEPT !.all_comments_removed = @ + 1])
              ELSE L4Scan(lines, i + 1, result, st)
         ELSE L4Scan(lines, i + 1, Append(result, MinifyOperators(line)), st)

Level4(lines, st) == L4Scan(lines, 1, <<>>, st)

\* ---- the function ----

\* mutant: every stage reads the original lines
StageInputOriginal(previous, original) == original

\* the lines a stage reads: the previous stage's result (lines = result)
StageInput(previous, original) == previous

\* mutant: level 0 returns the lines joined again
Level0Rejoined(text) == JoinLines(SplitLines(text))

\* level 0: return content, ...
Level0Output(text) == text

\* lines and stats after the stages that `level` enables, in order
RunStages(text, level) ==
    LET original == SplitLines(text)
        s0 == [lines |-> original,
               stats |-> [ZeroStats EXCEPT !.original_lines = Len(original)]]
        s1 == IF level >= 1 THEN Level1(StageInput(s0.lines, original), s0.stats) ELSE s0
        s2 == IF level >= 2 THEN Level2(StageInput(s1.lines, original), s1.stats) ELSE s1
        s3 == IF level >= 3 THEN Level3(StageInput(s2.lines, original), s2.stats) ELSE s2
        s4 == IF level >= 4 THEN Level4(StageInput(s3.lines, original), s3.stats) ELSE s3
    IN  s4

\* (1 - len(lines) / original_lines) * 100 if original_lines > 0 else 0
CompressionRatio(original_lines, final_lines) ==
    IF original_lines > 0
    THEN FloatMulInt(FloatOneMinus(FloatDiv(final_lines, original_lines)), 100)
    ELSE FloatZero

\* stats['final_lines'], stats['lines_removed'], stats['compression_ratio']
FinalStats(st, lines) ==
    [st EXCEPT !.final_lines = Len(lines),
               !.lines_removed = st.original_lines - Len(lines),
               !.compression_ratio = CompressionRatio(st.original_lines, Len(lines))]

\* compress_file_content(filepath, content, level): the returned text, the list
\* `lines` it was joined from, and the returned stats
compress_file_content(text, level) ==
    IF level = 0
    THEN [out |-> Level0Output(text), lines |-> SplitLines(text),
          stats |-> [ZeroStats EXCEPT !.original_lines = Len(SplitLines(text))]]
    ELSE LET s == RunStages(text, level) IN
         [out |-> JoinLines(s.lines), lines |-> s.lines,
          stats |-> FinalStats(s.stats, s.lines)]

(***************************************************************************)
(* FileClassifier                                                          *)
(***************************************************************************)

\* FileClassifier.__init__
NewClassifier ==
    [source_code_extensions |->
        {".py", ".js", ".jsx", ".ts", ".tsx", ".java", ".cpp", ".hpp", ".c", ".h",
         ".cc", ".cxx", ".cs", ".rb", ".go", ".php", ".swift", ".kt", ".kts",
         ".rs", ".scala", ".pl", ".pm", ".dart", ".lua", ".r", ".R", ".m", ".mm",
         ".f90", ".f95", ".jl", ".nim", ".v", ".zig", ".ex", ".exs", ".clj",
         ".cljs", ".elm", ".hs", ".ml", ".fs", ".vb", ".pas", ".d", ".cr",
         ".groovy",
         ".html", ".htm", ".css", ".scss", ".sass", ".less", ".vue", ".svelte",
         ".sh", ".bash", ".zsh", ".fish", ".ps1", ".bat", ".cmd",
         ".sql", ".graphql", ".proto"},
     important_config_patterns |->
        {"requirements.txt", "setup.py", "pyproject.toml", "setup.cfg",
         "package.json", "tsconfig.json",
         "Dockerfile", "docker-compose.yml", "docker-compose.yaml",
         ".dockerignore", "Makefile", "CMakeLists.txt",
         ".github/workflows/*.yml", ".gitlab-ci.yml",
         "README.md", "README.rst", "README.txt",
         "openapi.json", "openapi.yaml", "swagger.json", "swagger.yaml"},
     exclude_patterns |->
        {"*.lock", "package-lock.json", "yarn.lock", "pnpm-lock.yaml",
         "poetry.lock", "Pipfile.lock", "composer.lock", "Gemfile.lock",
         "Cargo.lock", "packages.lock.json", "bun.lockb",
         "*.pyc", "*.pyo", "*.pyd", "*.so", "*.dylib", "*.dll", "*.class",
         "*.jar", "*.war", "*.o", "*.obj", "*.exe", "*.app",
         "*.cache", "*.log", "*.tmp", "*.temp", "*.swp", "*.swo",
         "*.db", "*.sqlite", "*.sqlite3", "*.csv", "*.dat",
         "*.jpg", "*.jpeg", "*.png", "*.gif", "*.ico", "*.svg",
         "*.mp3", "*.mp4", "*.avi", "*.mov", "*.pdf", "*.doc", "*.docx",
         "*.zip", "*.tar", "*.gz", "*.bz2", "*.7z", "*.rar",
         "*.min.js", "*.min.css", "*.map",
         ".DS_Store", "Thumbs.db", "desktop.ini"},
     exclude_dirs |->
        {".git", ".svn", ".hg", ".bzr",
         "node_modules", "bower_components", "jspm_packages",
         "vendor", "packages", "libs", "third_party",
         "__pycache__", ".pytest_cache", ".mypy_cache", ".tox",
         "venv", "env", ".env", "virtualenv", ".venv", ".virtualenvs",
         "site-packages", "dist-packages",
         "build", "dist", "out", "output", "target", "bin", "obj",
         "_build", ".build", "cmake-build-debug", "cmake-build-release",
         ".idea", ".vscode", ".vs", ".eclipse", ".settings",
         "coverage", "htmlcov", ".coverage",
         "tmp", "temp", ".tmp", ".temp", "cache", ".cache",
         "_site", "site", ".docusaurus", "docs/_build"}]

\* os.sep
Sep == "/"

\* filepath.split(os.sep), as the set of its parts
PathParts(filepath) ==
    LET cuts == {0, Len(filepath) + 1} \cup Occurrences(filepath, Sep) IN
    {SubSeq(filepath, a + 1, b - 1) :
        <<a, b>> \in {p \in cuts \X cuts :
                        p[1] < p[2] /\ \A c \in cuts : ~(p[1] < c /\ c < p[2])}}

\* fnmatch.fnmatch(name, pat) for patterns of literals, * and ?
RECURSIVE FnMatch(_, _)
FnMatch(name, pat) ==
    IF Len(pat) = 0 THEN Len(name) = 0
    ELSE IF Ch(pat, 1) = "*"
         THEN \E k \in 0..Len(name) :
                  FnMatch(SubSeq(name, k + 1, Len(name)), SubSeq(pat, 2, Len(pat)))
    ELSE /\ Len(name) >= 1
         /\ (Ch(pat, 1) = "?" \/ Ch(pat, 1) = Ch(name, 1))
         /\ FnMatch(SubSeq(name, 2, Len(name)), SubSeq(pat, 2, Len(pat)))

\* os.path.splitext(p)[1]: from the last dot, unless only dots precede it in
\* the last path component
SplitExt(p) ==
    LET dots == Occurrences(p, ".")
        seps == Occurrences(p, Sep)
        lastDot == IF dots = {} THEN 0 ELSE CHOOSE i \in dots : \A j \in dots : j <= i
        lastSep == IF seps = {} THEN 0 ELSE CHOOSE i \in seps : \A j \in seps : j <= i
    IN  IF lastDot > lastSep /\ \E i \in (lastSep + 1)..(lastDot - 1) : Ch(p, i) # "."
        THEN SubSeq(p, lastDot, Len(p))
        ELSE ""

\* mutant: the path parts are compared as written, without lower()
InExcludedDirAsWritten(c, filepath) ==
    \E part \in PathParts(filepath) : part \in c.exclude_dirs

\* for part in path_parts: if part.lower() in {d.lower() for d in self.exclude_dirs}
InExcludedDir(c, filepath) ==
    \E part \in PathParts(filepath) :
        StrLower(part) \in {StrLower(d) : d \in c.exclude_dirs}

\* for pattern in self.exclude_patterns: if fnmatch.fnmatch(filename_lower, pattern.lower())
MatchesExcludePattern(c, filename) ==
    \E pattern \in c.exclude_patterns : FnMatch(StrLower(filename), StrLower(pattern))

TestFilePatterns == {"test_", "_test.", ".test.", ".spec.", "_spec."}

ConfigNames == {"requirements.txt", "package.json", "Dockerfile",
                "docker-compose.yml", "Makefile", "setup.py", "pyproject.toml"}

ReadmeNames == {"readme.md", "readme.rst", "readme.txt"}

RootDotfiles == {".gitignore", ".dockerignore", ".editorconfig"}

\* mutant: the source-extension check runs before the exclude patterns
should_include_file_SourceFirst(c, filepath, filename) ==
    IF InExcludedDir(c, filepath) THEN <<FALSE, "excluded">>
    ELSE IF SplitExt(StrLower(filename)) \in c.source_code_extensions
    THEN IF \E t \in TestFilePatterns : Contains(StrLower(filename), t)
         THEN <<TRUE, "test">>
         ELSE <<TRUE, "source">>
    ELSE IF MatchesExcludePattern(c, filename) THEN <<FALSE, "excluded">>
    ELSE IF filename \in ConfigNames THEN <<TRUE, "config">>
    ELSE IF StrLower(filename) \in ReadmeNames THEN <<TRUE, "doc">>
    ELSE IF StartsWith(filename, ".") /\ ~Contains(filepath, "/")
            /\ filename \in RootDotfiles
    THEN <<TRUE, "config">>
    ELSE <<FALSE, "excluded">>

\* FileClassifier.should_include_file(filepath, filename) -> (should_include, category)
should_include_file(c, filepath, filename) ==
    IF InExcludedDir(c, filepath) THEN <<FALSE, "excluded">>
    ELSE IF MatchesExcludePattern(c, filename) THEN <<FALSE, "excluded">>
    ELSE IF SplitExt(StrLower(filename)) \in c.source_code_extensions
    THEN IF \E t \in TestFilePatterns : Contains(StrLower(filename), t)
         THEN <<TRUE, "test">>
         ELSE <<TRUE, "source">>
    ELSE IF filename \in ConfigNames THEN <<TRUE, "config">>
    ELSE IF StrLower(filename) \in ReadmeNames THEN <<TRUE, "doc">>
    ELSE IF StartsWith(filename, ".") /\ ~Contains(filepath, "/")
            /\ filename \in RootDotfiles
    THEN <<TRUE, "config">>
    ELSE <<FALSE, "excluded">>

(***************************************************************************)
(* The repository on disk that a run reads                                 *)
(***************************************************************************)

RepoRoot == "/repo"

\* the same tree placed below a directory named tmp
MovedRoot == "/tmp/repo"

\* the places where that tree lies
TreeRoots == {RepoRoot, MovedRoot}

\* a second repository: one picture and one source file
BareRoot == "/bare"

\* a path that is not a directory
MissingFolder == "/missing"

\* os.path.join(root, name)
JoinPath(root, name) == root \o Sep \o name

\* what one step of os.walk lists in a directory: sub-directories and files
Listing(dir) ==
    CASE dir \in TreeRoots ->
            [dirs |-> <<".config", "build", "src">>, files |-> <<"README.md", "main.py">>]
      [] \E r \in TreeRoots : dir = JoinPath(r, ".config") ->
            [dirs |-> <<>>, files |-> <<"tool.py">>]
      [] \E r \in TreeRoots : dir = JoinPath(r, "build") ->
            [dirs |-> <<>>, files |-> <<"gen.py">>]
      [] \E r \in TreeRoots : dir = JoinPath(r, "src") ->
            [dirs |-> <<"dist">>, files |-> <<"package.json", "test_util.py">>]
      [] \E r \in TreeRoots : dir = JoinPath(JoinPath(r, "src"), "dist") ->
            [dirs |-> <<>>, files |-> <<"x.js">>]
      [] dir = BareRoot ->
            [dirs |-> <<>>, files |-> <<"logo.png", "only.py">>]
      [] OTHER -> [dirs |-> <<>>, files |-> <<>>]

\* every directory of the repository, and every file with its directory
RECURSIVE DirsUnder(_)
DirsUnder(dir) ==
    {dir} \cup UNION {DirsUnder(JoinPath(dir, Listing(dir).dirs[i])) :
                        i \in 1..Len(Listing(dir).dirs)}

FilesIn(dir) == {JoinPath(dir, Listing(dir).files[i]) : i \in 1..Len(Listing(dir).files)}

FilesUnder(root) == UNION {FilesIn(d) : d \in DirsUnder(root)}

AllFiles == FilesUnder(RepoRoot) \cup FilesUnder(MovedRoot) \cup FilesUnder(BareRoot)

\* os.path.isdir(path)
IsDirectory(path) ==
    path \in DirsUnder(RepoRoot) \cup DirsUnder(MovedRoot) \cup DirsUnder(BareRoot)

\* what f.read() returns for a readable file
DiskContent(filepath) ==
    CASE EndsWith(filepath, "/README.md") -> "# Title  \n\n\n\nText\n"
      [] EndsWith(filepath, "/main.py") ->
            "# c\nx = 1  \n\n\n\nprint(x)\ndef f(a) -> int:\n    return a # r\n"
      [] EndsWith(filepath, "/test_util.py") -> "def test_b():\n    assert True  \n"
      [] EndsWith(filepath, "/package.json") -> "{\n  \"a\": 1  \n}\n"
      [] EndsWith(filepath, "/tool.py") -> "z = 3\n"
      [] EndsWith(filepath, "/gen.py") -> "g = 4\n"
      [] EndsWith(filepath, "/only.py") -> "print(1)\n"
      [] OTHER -> "var d = 5;\n"

\* what can be wrong with a file: os.path.getsize raises, the file is larger
\* than args.max_file_size, open/read raises, the content is only whitespace,
\* or compress_file_content raises
FaultKinds == {"size_error", "too_large", "read_error", "blank", "compress_error"}

\* at most this many files of a repository are faulty
MaxFaults == 1

AllOk == [p \in AllFiles |-> "ok"]

\* the files that may be faulty: a source file, a doc file and a test file
FaultTargets ==
    FilesIn(RepoRoot) \cup {JoinPath(JoinPath(RepoRoot, "src"), "test_util.py")}

RECURSIVE FaultMaps(_)
FaultMaps(k) ==
    IF k = 0 THEN {AllOk}
    ELSE FaultMaps(k - 1) \cup
         {[m EXCEPT ![p] = kind] :
            m \in FaultMaps(k - 1), kind \in FaultKinds, p \in FaultTargets}

\* the second repository with its source file sound or faulty
BareFaultMaps ==
    {[AllOk EXCEPT ![JoinPath(BareRoot, "only.py")] = kind] :
        kind \in FaultKinds \cup {"ok"}}

\* --max-file-size, default 500*1024
DefaultMaxFileSize == 512000

(***************************************************************************)
(* process_repository, format_output, main                                 *)
(***************************************************************************)

\* FileClassifier.is_excluded_dir(dirname)
is_excluded_dir(c, dirname) ==
    \/ StrLower(dirname) \in {StrLower(d) : d \in c.exclude_dirs}
    \/ StartsWith(dirname, ".")

\* mutant: only the names of the excluded-directory set are pruned
is_excluded_dir_SetOnly(c, dirname) ==
    StrLower(dirname) \in {StrLower(d) : d \in c.exclude_dirs}

Categories == {"source", "test", "config", "doc"}

Languages == {"Python", "JavaScript", "TypeScript", "Java", "Go", "Rust",
              "C/C++", "C#", "Ruby", "PHP"}

\* the language counted for an extension, "" for none
LanguageOf(ext_lower) ==
    CASE ext_lower \in {".py", ".pyw"} -> "Python"
      [] ext_lower \in {".js", ".jsx", ".mjs"} -> "JavaScript"
      [] ext_lower \in {".ts", ".tsx"} -> "TypeScript"
      [] ext_lower \in {".java"} -> "Java"
      [] ext_lower \in {".go"} -> "Go"
      [] ext_lower \in {".rs"} -> "Rust"
      [] ext_lower \in {".cpp", ".cc", ".cxx", ".hpp", ".h"} -> "C/C++"
      [] ext_lower \in {".cs"} -> "C#"
      [] ext_lower \in {".rb"} -> "Ruby"
      [] ext_lower \in {".php"} -> "PHP"
      [] OTHER -> ""

\* the stats dict process_repository starts with
ZeroRunStats ==
    [total_files |-> 0, total_size |-> 0, total_lines |-> 0, original_size |-> 0,
     compressed_size |-> 0,
     languages |-> [l \in Languages |-> 0],
     categories |-> [c \in Categories |-> 0],
     compression |-> ZeroStats]

\* for key, value in comp_stats.items(): stats['compression'][key] += value
AddCompression(total, comp_stats) ==
    [k \in DOMAIN total |->
        IF k = "compression_ratio" THEN FloatAdd(total[k], comp_stats[k])
        ELSE total[k] + comp_stats[k]]

\* not content.strip()
IsBlankText(text) == \A i \in 1..Len(text) : IsSpace(Ch(text, i))

\* f.read(), when it does not raise
ReadContent(fault, filepath) ==
    IF fault = "blank" THEN "  \n" ELSE DiskContent(filepath)

\* os.path.getsize(filepath), when it does not raise
FileSize(fault, filepath) ==
    IF fault = "too_large" THEN DefaultMaxFileSize + 1
    ELSE Len(ReadContent(fault, filepath))

\* os.path.basename(path)
BaseName(path) ==
    LET seps == Occurrences(path, Sep)
        lastSep == IF seps = {} THEN 0 ELSE CHOOSE i \in seps : \A j \in seps : j <= i
    IN  SubSeq(path, lastSep + 1, Len(path))

\* os.path.relpath(filepath, folder_path) for a file below folder_path
RelPath(filepath, folder) == SubSeq(filepath, Len(folder) + 2, Len(filepath))

\* f"{n:,}"
RECURSIVE FormatThousands(_)
FormatThousands(n) ==
    IF n < 1000 THEN ToString(n)
    ELSE FormatThousands(n \div 1000) \o ","
         \o (IF n % 1000 < 10 THEN "00" ELSE IF n % 1000 < 100 THEN "0" ELSE "")
         \o ToString(n % 1000)

\* "-" * 40
HeaderRule == "----------------------------------------"

\* '=' * 60
FileRule == "============================================================"

\* the fence language of the markdown format
FenceLanguage(ext_lower) ==
    CASE ext_lower = ".py" -> "python"
      [] ext_lower = ".js" -> "javascript"
      [] ext_lower = ".ts" -> "typescript"
      [] ext_lower = ".java" -> "java"
      [] ext_lower = ".go" -> "go"
      [] ext_lower = ".rs" -> "rust"
      [] ext_lower = ".rb" -> "ruby"
      [] ext_lower = ".cpp" -> "cpp"
      [] ext_lower = ".c" -> "c"
      [] ext_lower = ".cs" -> "csharp"
      [] ext_lower = ".php" -> "php"
      [] ext_lower = ".swift" -> "swift"
      [] ext_lower = ".kt" -> "kotlin"
      [] ext_lower = ".scala" -> "scala"
      [] ext_lower = ".jsx" -> "jsx"
      [] ext_lower = ".tsx" -> "tsx"
      [] ext_lower = ".sh" -> "bash"
      [] ext_lower = ".sql" -> "sql"
      [] ext_lower = ".r" -> "r"
      [] OTHER -> ""

\* the fence of a markdown code block: three grave accents
Fence == LET grave == SubSeq("`'", 1, 1) IN grave \o grave \o grave

\* the header lines of the document
OutputHeader(st, a, folder) ==
    LET project_name == BaseName(folder)
        counts == "Files: " \o ToString(st.total_files) \o " | Lines: "
                  \o FormatThousands(st.total_lines)
        level == IF a.compress > 0
                 THEN <<"Compression: Level " \o ToString(a.compress)>> ELSE <<>>
    IN  IF a.format = "markdown"
        THEN <<"# " \o project_name, counts>> \o level \o <<"">>
        ELSE <<"Repository: " \o project_name, counts>> \o level \o <<HeaderRule>>

\* the list entries appended for one (filepath, content) pair
OutputSection(pair, a, folder) ==
    LET rel_path == RelPath(pair[1], folder)
    IN  IF a.format = "markdown"
        THEN <<"\n## " \o rel_path,
               Fence \o FenceLanguage(StrLower(SplitExt(pair[1]))),
               pair[2], Fence>>
        ELSE <<"\n" \o FileRule, "FILE: " \o rel_path, FileRule, pair[2]>>

\* the output list of format_output, before it is joined
RECURSIVE OutputSections(_, _, _)
OutputSections(files, a, folder) ==
    IF files = <<>> THEN <<>>
    ELSE OutputSection(files[1], a, folder) \o OutputSections(Tail(files), a, folder)

OutputList(files, st, a, folder) ==
    OutputHeader(st, a, folder) \o OutputSections(files, a, folder)

\* format_output(processed_files, stats, args, folder_path)
format_output(files, st, a, folder) == JoinLines(OutputList(files, st, a, folder))

\* the name main writes to: llm_repo_<project>, the extension of the format,
\* and .gz from level 3
OutputFileName(a, folder) ==
    "llm_repo_" \o BaseName(folder)
    \o (IF a.format = "markdown" THEN ".md" ELSE ".txt")
    \o (IF a.compress >= 3 THEN ".gz" ELSE "")

\* mutant: an included file is put in front of the list
collect_one_Prepend(c, a, fault, filepath, filename, files, st) ==
    IF fault = "size_error" THEN [files_to_process |-> files, stats |-> st]
    ELSE IF FileSize(fault, filepath) > a.max_file_size
    THEN [files_to_process |-> files, stats |-> st]
    ELSE LET verdict == should_include_file(c, filepath, filename)
             sized == [st EXCEPT !.original_size = @ + FileSize(fault, filepath)]
         IN  IF verdict[1]
             THEN [files_to_process |-> <<<<filepath, verdict[2]>>>> \o files,
                   stats |-> [sized EXCEPT !.categories[verdict[2]] = @ + 1]]
             ELSE [files_to_process |-> files, stats |-> sized]

\* the body of `for file in files`: the size check, the classification and
\* the append to files_to_process
collect_one(c, a, fault, filepath, filename, files, st) ==
    IF fault = "size_error" THEN [files_to_process |-> files, stats |-> st]
    ELSE IF FileSize(fault, filepath) > a.max_file_size
    THEN [files_to_process |-> files, stats |-> st]
    ELSE LET verdict == should_include_file(c, filepath, filename)
             sized == [st EXCEPT !.original_size = @ + FileSize(fault, filepath)]
         IN  IF verdict[1]
             THEN [files_to_process |-> Append(files, <<filepath, verdict[2]>>),
                   stats |-> [sized EXCEPT !.categories[verdict[2]] = @ + 1]]
             ELSE [files_to_process |-> files, stats |-> sized]

\* mutant: every category is compressed
ShouldCompressAny(a, category) == a.compress > 0

\* if args.compress > 0 and category == "source"
ShouldCompress(a, category) == a.compress > 0 /\ category = "source"

\* the stats after the counters of one read, non-blank file
TrackFile(st, filepath, text) ==
    LET counted == [st EXCEPT !.total_files = @ + 1,
                              !.total_lines = @ + Len(SplitLines(text))]
        lang == LanguageOf(StrLower(SplitExt(filepath)))
    IN  IF lang = "" THEN counted
        ELSE [counted EXCEPT !.languages[lang] = @ + 1]

\* mutant: a file whose compression raises is emitted as it was read
process_one_KeepFailed(a, fault, filepath, category, st, files, log) ==
    IF fault = "read_error"
    THEN [stats |-> st, processed_files |-> files, compress_log |-> log]
    ELSE LET text == ReadContent(fault, filepath)
             tracked == TrackFile(st, filepath, text)
         IN  IF IsBlankText(text)
             THEN [stats |-> st, processed_files |-> files, compress_log |-> log]
             ELSE IF ShouldCompress(a, category) /\ fault # "compress_error"
             THEN LET r == compress_file_content(text, a.compress)
                  IN  [stats |-> [tracked EXCEPT
                                    !.compression = AddCompression(@, r.stats),
                                    !.compressed_size = @ + Len(r.out)],
                       processed_files |-> Append(files, <<filepath, r.out>>),
                       compress_log |-> Append(log, filepath)]
             ELSE [stats |-> [tracked EXCEPT !.compressed_size = @ + Len(text)],
                   processed_files |-> Append(files, <<filepath, text>>),
                   compress_log |-> log]

\* content = compressed_content; the counters of comp_stats summed; the
\* compressed size and the append, for the result r of compress_file_content
EmitCompressed(tracked, filepath, files, log, r) ==
    [stats |-> [tracked EXCEPT !.compression = AddCompression(@, r.stats),
                               !.compressed_size = @ + Len(r.out)],
     processed_files |-> Append(files, <<filepath, r.out>>),
     compress_log |-> Append(log, filepath)]

\* the part of the loop body after the counters: compress a source file, or
\* append the text as read; an exception of compress_file_content leaves the
\* counters of the file counted and appends nothing
process_tracked(a, fault, filepath, category, tracked, files, log, text) ==
    IF ShouldCompress(a, category)
    THEN IF fault = "compress_error"
         THEN [stats |-> tracked, processed_files |-> files,
               compress_log |-> Append(log, filepath)]
         ELSE EmitCompressed(tracked, filepath, files, log,
                             compress_file_content(text, a.compress))
    ELSE [stats |-> [tracked EXCEPT !.compressed_size = @ + Len(text)],
          processed_files |-> Append(files, <<filepath, text>>),
          compress_log |-> log]

\* the part of the loop body after f.read(): skip blank content, count
process_read(a, fault, filepath, category, st, files, log, text) ==
    IF IsBlankText(text)
    THEN [stats |-> st, processed_files |-> files, compress_log |-> log]
    ELSE process_tracked(a, fault, filepath, category,
                         TrackFile(st, filepath, text), files, log, text)

\* the body of `for filepath, category in files_to_process`, with its
\* try/except: read, skip blank content, count, compress source files, append
process_one(a, fault, filepath, category, st, files, log) ==
    IF fault = "read_error"
    THEN [stats |-> st, processed_files |-> files, compress_log |-> log]
    ELSE process_read(a, fault, filepath, category, st, files, log,
                      ReadContent(fault, filepath))

\* mutant: main never takes the empty result as fatal
NoRelevantFilesNever(files) == FALSE

\* if not processed_files
NoRelevantFiles(files) == files = <<>>

\* ---- the variables of a run ----

runVars == <<pc, args, folder_path, faults, tokenizer, pending, todo, visited,
             files_to_process, stats, next_file, processed_files, compress_log,
             output_content, output_tokens, output_file, exit_code>>

oldVars == <<content, calls, cpath, cname, cresults, classifier>>

NoDocument == [made |-> FALSE, text |-> ""]

NoFile == [written |-> FALSE, name |-> "", text |-> "", gzip |-> FALSE]

\* everything a run has before its first step
RunStart ==
    /\ pc = "main"
    /\ pending = <<>>
    /\ todo = <<>>
    /\ visited = <<>>
    /\ files_to_process = <<>>
    /\ stats = ZeroRunStats
    /\ next_file = 1
    /\ processed_files = <<>>
    /\ compress_log = <<>>
    /\ output_content = NoDocument
    /\ output_tokens = 0
    /\ output_file = NoFile
    /\ exit_code = -1

\* no run: the other specifications leave the run variables at this
RunIdle ==
    /\ RunStart
    /\ args = [compress |-> 0, format |-> "text", max_file_size |-> DefaultMaxFileSize]
    /\ folder_path = RepoRoot
    /\ faults = AllOk
    /\ tokenizer = FALSE

(***************************************************************************)
(* Inputs of the compression runs                                          *)
(***************************************************************************)

\* body lengths go up to LargeBodyThreshold + BodyMargin
BodyMargin == 1

\* a line repeated n times, as a list
RECURSIVE Repeat(_, _)
Repeat(line, n) == IF n <= 0 THEN <<>> ELSE <<line>> \o Repeat(line, n - 1)

\* lines before the function
Leads == {<<>>, <<"x = 1  ", "", "   ", "">>}

\* the definition line
Defs == {"def f():", "def test_example():", "def my_test(a) -> int:"}

\* the first lines of the body
Mids == {<<>>,
         <<"    def g():">>,
         <<"    # c", "    print(x)">>,
         <<"    '''", "    doc", "    '''">>,
         <<"    '''doc'''">>}

\* the repeated body line
BodyLines == {"        a = 1", "    a = 1"}

BodyCounts == {0} \cup ((LargeBodyThreshold - 2)..(LargeBodyThreshold + BodyMargin))

\* lines after the function
Trails == {<<>>, <<"# TODO: fix this">>, <<"y = x // 2 # n">>}

\* how the text ends
Endings == {"", "\n"}

\* a text of 20 lines of which 6 are plain comments
RatioFixture == JoinLines(Repeat("# c", 6) \o Repeat("x = 1", 14))

\* comment lines of the three kinds, with and without a keyword in lower case
CommentFixture ==
    JoinLines(<<"# note: keep", "// plain", "/* block */", "  # debug only",
                "  // c", "x = 1">>)

\* a text that makes every removal counter move: two blank lines, a comment
\* line, a debug print, a body of 11 lines, a docstring line, a test function
CounterFixture ==
    JoinLines(<<"x = 1", "", "", "# c", "print(x)", "def f():">>
              \o Repeat("    a = 1", LargeBodyThreshold + 1)
              \o <<"'''doc'''", "def test_a():", "    assert 1", "y = 2">>)

Contents ==
    {JoinLines(lead \o <<d>> \o mid \o Repeat(b, n) \o trail) \o e :
        lead \in Leads, d \in Defs, mid \in Mids, b \in BodyLines,
        n \in BodyCounts, trail \in Trails, e \in Endings}
    \cup {RatioFixture, CommentFixture, CounterFixture}

(***************************************************************************)
(* The compression runs: one text compressed at level 0, 1, 2, 3, 4 in     *)
(* turn, as test_compression_levels does                                   *)
(***************************************************************************)

MaxLevel == 4

InitCompress ==
    /\ content \in Contents
    /\ calls = <<>>
    /\ cpath = ""
    /\ cname = ""
    /\ cresults = <<>>
    /\ classifier = NewClassifier
    /\ RunIdle

\* result, stats = compress_file_content('test.py', sample_code, level)
CompressCall ==
    /\ Len(calls) <= MaxLevel
    /\ calls' = Append(calls, compress_file_content(content, Len(calls)))
    /\ UNCHANGED <<content, cpath, cname, cresults, classifier>>
    /\ UNCHANGED runVars

NextCompress == CompressCall

SpecCompress == InitCompress /\ [][NextCompress]_vars

(***************************************************************************)
(* The classification runs: one (filepath, filename) classified repeatedly *)
(***************************************************************************)

\* directories above the file, at most MaxDepth of them
MaxDepth == 2

\* calls made with the same arguments
MaxCalls == 2

DirNames == {"src", "Build", "node_modules"}

FileNames ==
    {"main.py", "Main.PY", "app.js", "app.min.js", "App.Min.JS", "component.tsx",
     "test_utils.py", "utils_test.go", "a.spec.ts", "setup.py", ".py",
     "package.json", "package-lock.json", "yarn.lock", "Dockerfile", "Makefile",
     "makefile", "tsconfig.json", "README.md", "readme.TXT", "README",
     ".gitignore", ".editorconfig", ".env", "image.PNG", "Thumbs.db", "data.db",
     "notes.txt", "build", "test_data.csv"}

RECURSIVE DirChains(_)
DirChains(n) ==
    IF n = 0 THEN {""}
    ELSE DirChains(n - 1) \cup {d \o Sep \o rest : d \in DirNames, rest \in DirChains(n - 1)}

\* how the path starts: relative, or under an absolute root
Roots == {"", "/home/u/repo/"}

InitClassify ==
    /\ cname \in FileNames
    /\ cpath \in {root \o dirs \o cname : root \in Roots, dirs \in DirChains(MaxDepth)}
    /\ cresults = <<>>
    /\ classifier = NewClassifier
    /\ content = ""
    /\ calls = <<>>
    /\ RunIdle

\* should_include, category = classifier.should_include_file(filepath, file)
Classify ==
    /\ Len(cresults) < MaxCalls
    /\ cresults' = Append(cresults, should_include_file(classifier, cpath, cname))
    /\ UNCHANGED <<cpath, cname, classifier, content, calls>>
    /\ UNCHANGED runVars

NextClassify == Classify

SpecClassify == InitClassify /\ [][NextClassify]_vars

(***************************************************************************)
(* The runs of main: one repository, one set of arguments.  Printing, the  *)
(* progress bar and the timing are left out; they change no state.         *)
(***************************************************************************)

\* the parsed arguments: --compress, --format, --max-file-size
RunArgs ==
    [compress : 0..MaxLevel, format : {"text", "markdown"},
     max_file_size : {DefaultMaxFileSize}]

InitRun ==
    /\ content = ""
    /\ calls = <<>>
    /\ cpath = ""
    /\ cname = ""
    /\ cresults = <<>>
    /\ classifier = NewClassifier
    /\ args \in RunArgs
    /\ \/ folder_path = RepoRoot /\ faults \in FaultMaps(MaxFaults) /\ tokenizer = FALSE
       \/ folder_path = RepoRoot /\ faults = AllOk /\ tokenizer = TRUE
       \/ folder_path = BareRoot /\ faults \in BareFaultMaps /\ tokenizer = FALSE
       \/ folder_path = MovedRoot /\ faults = AllOk /\ tokenizer = FALSE
       \/ folder_path = MissingFolder /\ faults = AllOk /\ tokenizer = FALSE
    /\ RunStart

\* main: if not os.path.isdir(args.folder_path): sys.exit(1); otherwise
\* process_repository starts its walk at folder_path
ValidateInput ==
    /\ pc = "main"
    /\ IF IsDirectory(folder_path)
       THEN /\ pc' = "walk"
            /\ pending' = <<folder_path>>
            /\ UNCHANGED exit_code
       ELSE /\ pc' = "exited"
            /\ exit_code' = 1
            /\ UNCHANGED pending
    /\ UNCHANGED <<args, folder_path, faults, tokenizer, todo, visited,
                   files_to_process, stats, next_file, processed_files,
                   compress_log, output_content, output_tokens, output_file>>
    /\ UNCHANGED oldVars

\* sub-directories that the walk keeps: dirs[:] = [d for d in dirs if not ...]
KeptDirs(c, dirs) == SelectSeq(dirs, LAMBDA d : ~is_excluded_dir(c, d))

\* one step of os.walk: the next directory, its kept sub-directories queued
\* before the directories still waiting, its files to be looked at
WalkDir ==
    /\ pc = "walk"
    /\ todo = <<>>
    /\ pending # <<>>
    /\ LET root == Head(pending)
           kept == KeptDirs(classifier, Listing(root).dirs)
           files == Listing(root).files
       IN  /\ pending' = [i \in 1..Len(kept) |-> JoinPath(root, kept[i])] \o Tail(pending)
           /\ todo' = [i \in 1..Len(files) |-> <<JoinPath(root, files[i]), files[i]>>]
    /\ UNCHANGED <<pc, args, folder_path, faults, tokenizer, visited,
                   files_to_process, stats, next_file, processed_files,
                   compress_log, output_content, output_tokens, output_file, exit_code>>
    /\ UNCHANGED oldVars

\* the list and the counters after one file of the walk
Collected(r) ==
    /\ files_to_process' = r.files_to_process
    /\ stats' = r.stats

\* one file of the directory: size check, classification, files_to_process
CollectFile ==
    /\ pc = "walk"
    /\ todo # <<>>
    /\ Collected(collect_one(classifier, args, faults[Head(todo)[1]], Head(todo)[1],
                             Head(todo)[2], files_to_process, stats))
    /\ visited' = Append(visited, Head(todo)[1])
    /\ todo' = Tail(todo)
    /\ UNCHANGED <<pc, args, folder_path, faults, tokenizer, pending, next_file,
                   processed_files, compress_log, output_content, output_tokens,
                   output_file, exit_code>>
    /\ UNCHANGED oldVars

\* the walk is over: the second loop starts
StartProcessing ==
    /\ pc = "walk"
    /\ todo = <<>>
    /\ pending = <<>>
    /\ pc' = "process"
    /\ UNCHANGED <<args, folder_path, faults, tokenizer, pending, todo, visited,
                   files_to_process, stats, next_file, processed_files,
                   compress_log, output_content, output_tokens, output_file, exit_code>>
    /\ UNCHANGED oldVars

\* the counters and the list after one iteration of the second loop
Processed(r) ==
    /\ stats' = r.stats
    /\ processed_files' = r.processed_files
    /\ compress_log' = r.compress_log

\* one iteration of `for filepath, category in files_to_process`
ProcessFile ==
    /\ pc = "process"
    /\ next_file <= Len(files_to_process)
    /\ Processed(process_one(args, faults[files_to_process[next_file][1]],
                             files_to_process[next_file][1],
                             files_to_process[next_file][2], stats,
                             processed_files, compress_log))
    /\ next_file' = next_file + 1
    /\ UNCHANGED <<pc, args, folder_path, faults, tokenizer, pending, todo, visited,
                   files_to_process, output_content, output_tokens, output_file,
                   exit_code>>
    /\ UNCHANGED oldVars

\* process_repository returns; main: if not processed_files: sys.exit(1)
CheckProcessed ==
    /\ pc = "process"
    /\ next_file > Len(files_to_process)
    /\ IF NoRelevantFiles(processed_files)
       THEN pc' = "exited" /\ exit_code' = 1
       ELSE pc' = "format" /\ UNCHANGED exit_code
    /\ UNCHANGED <<args, folder_path, faults, tokenizer, pending, todo, visited,
                   files_to_process, stats, next_file, processed_files,
                   compress_log, output_content, output_tokens, output_file>>
    /\ UNCHANGED oldVars

\* output_content = format_output(processed_files, stats, args, folder_path)
FormatOutput ==
    /\ pc = "format"
    /\ output_content' =
          [made |-> TRUE,
           text |-> format_output(processed_files, stats, args, folder_path)]
    /\ pc' = "estimate"
    /\ UNCHANGED <<args, folder_path, faults, tokenizer, pending, todo, visited,
                   files_to_process, stats, next_file, processed_files,
                   compress_log, output_tokens, output_file, exit_code>>
    /\ UNCHANGED oldVars

\* what main does with the outcome of estimate_tokens: its exception is
\* caught nowhere and ends the run; its value is kept for the analysis
Estimated(r) ==
    IF r.raised
    THEN pc' = "crashed" /\ exit_code' = 1 /\ UNCHANGED output_tokens
    ELSE pc' = "write" /\ output_tokens' = r.tokens /\ UNCHANGED exit_code

\* output_tokens = estimate_tokens(output_content)
EstimateTokens ==
    /\ pc = "estimate"
    /\ \E encoded \in EncodeOutcomes :
          Estimated(estimate_tokens(output_content.text, tokenizer, encoded))
    /\ UNCHANGED <<args, folder_path, faults, tokenizer, pending, todo, visited,
                   files_to_process, stats, next_file, processed_files,
                   compress_log, output_content, output_file>>
    /\ UNCHANGED oldVars

\* the file is written, through gzip from level 3, and main returns
WriteOutput ==
    /\ pc = "write"
    /\ output_file' = [written |-> TRUE, name |-> OutputFileName(args, folder_path),
                       text |-> output_content.text, gzip |-> args.compress >= 3]
    /\ pc' = "done"
    /\ exit_code' = 0
    /\ UNCHANGED <<args, folder_path, faults, tokenizer, pending, todo, visited,
                   files_to_process, stats, next_file, processed_files,
                   compress_log, output_content, output_tokens>>
    /\ UNCHANGED oldVars

NextRun ==
    \/ ValidateInput
    \/ WalkDir
    \/ CollectFile
    \/ StartProcessing
    \/ ProcessFile
    \/ CheckProcessed
    \/ FormatOutput
    \/ EstimateTokens
    \/ WriteOutput

SpecRun == InitRun /\ [][NextRun]_vars

(***************************************************************************)
(* Properties of the runs of main                                          *)
(***************************************************************************)

\* process_repository has returned
Returned == pc \in {"exited", "format", "estimate", "write", "done", "crashed"}
                /\ IsDirectory(folder_path)

\* process_repository has just returned to main
JustReturned == pc \in {"exited", "format"} /\ IsDirectory(folder_path)

\* C12: when a run ends with zero processed files, it terminates with a fatal
\* outcome (exit status 1) and no output document is formatted or written.
C12_EmptyResultIsFatal ==
    /\ (Returned /\ processed_files = <<>>) =>
            /\ pc = "exited"
            /\ exit_code = 1
            /\ ~output_content.made
            /\ ~output_file.written
    /\ (output_content.made \/ output_file.written) => processed_files # <<>>

\* a repository whose only included file could not be used ended the run
\* with status 1
C12_Witness ==
    /\ pc = "exited"
    /\ folder_path = BareRoot
    /\ files_to_process # <<>>
    /\ processed_files = <<>>
    /\ exit_code = 1

\* the category should_include_file gives a file, "excluded" for none
CategoryOf(filepath) ==
    should_include_file(NewClassifier, filepath, BaseName(filepath))[2]

\* the size check, the read or the compression of the file fails
Failing(filepath) ==
    \/ faults[filepath] \in {"size_error", "read_error"}
    \/ faults[filepath] = "compress_error"
          /\ args.compress > 0 /\ CategoryOf(filepath) = "source"

\* the file is left out: it fails, is too large or is blank
Skipped(filepath) ==
    Failing(filepath) \/ faults[filepath] \in {"too_large", "blank"}

\* the included files of the traversal that are not left out, in its order
SoundFiles ==
    SelectSeq(visited, LAMBDA f : CategoryOf(f) # "excluded" /\ ~Skipped(f))

\* what process_repository returns for the file when the repository holds
\* this one sound file only
EmittedAlone(filepath) ==
    process_one(args, "ok", filepath, CategoryOf(filepath), ZeroRunStats,
                <<>>, <<>>).processed_files

RECURSIVE EmittedEach(_)
EmittedEach(files) ==
    IF files = <<>> THEN <<>>
    ELSE EmittedAlone(files[1]) \o EmittedEach(Tail(files))

\* C13: a size-check, read or processing failure on one file never aborts
\* process_repository; the file is skipped and every other included file is
\* returned with exactly the content it has when the failing file is absent.
C13_FailuresIsolated ==
    /\ JustReturned => processed_files = EmittedEach(SoundFiles)
    /\ pc = "crashed" => output_content.made
    /\ (pc = "exited" /\ IsDirectory(folder_path)) => EmittedEach(SoundFiles) = <<>>

\* the compression of main.py raised at level 2 and the run still wrote the
\* three other included files of the repository
C13_Witness ==
    /\ pc = "done"
    /\ args.compress = 2
    /\ faults[JoinPath(RepoRoot, "main.py")] = "compress_error"
    /\ Len(processed_files) = 3
    /\ \A i \in 1..3 : processed_files[i][1] # JoinPath(RepoRoot, "main.py")

\* C14: estimate_tokens never fails because of the external tokenizer: when
\* the tokenizer is unavailable, or available but raising on the text, the
\* estimate is the heuristic one and no error ends the run.
C14_TokenizerNeverFails ==
    /\ pc # "crashed"
    /\ pc \in {"write", "done"} =>
          \E encoded \in EncodeOutcomes :
              output_tokens =
                  estimate_tokens_Guarded(output_content.text, tokenizer, encoded).tokens

\* the paths of a list of (path, x) pairs
PathsOf(pairs) == [i \in 1..Len(pairs) |-> pairs[i][1]]

\* the elements of `whole` that occur in `part`, in the order of `whole`
Restricted(whole, part) ==
    SelectSeq(whole, LAMBDA x : \E i \in 1..Len(part) : part[i] = x)

\* the relative paths the document names in its file headings, top to bottom
DocumentPaths(text, format) ==
    LET mark == IF format = "markdown" THEN "## " ELSE "FILE: "
        headings == SelectSeq(SplitLines(text), LAMBDA line : StartsWith(line, mark))
    IN  [i \in 1..Len(headings) |->
            SubSeq(headings[i], Len(mark) + 1, Len(headings[i]))]

\* C15: the (path, content) pairs returned by process_repository and written
\* by format_output form a subsequence of the traversal's candidate sequence
\* in the same relative order, whichever files are skipped.
C15_DiscoveryOrder ==
    /\ PathsOf(files_to_process) = Restricted(visited, PathsOf(files_to_process))
    /\ PathsOf(processed_files) = Restricted(visited, PathsOf(processed_files))
    /\ output_content.made =>
          DocumentPaths(output_content.text, args.format) =
              [i \in 1..Len(processed_files) |->
                  RelPath(processed_files[i][1], folder_path)]
    /\ output_file.written => output_file.text = output_content.text

\* the first candidate was too large; the three later included files were
\* written to a markdown document
C15_Witness ==
    /\ pc = "done"
    /\ args.format = "markdown"
    /\ faults[JoinPath(RepoRoot, "README.md")] = "too_large"
    /\ Len(visited) > Len(processed_files)
    /\ Len(processed_files) = 3
    /\ output_file.written

\* the walk of process_repository is over
Walked == pc \notin {"main", "walk"} /\ IsDirectory(folder_path)

\* C19: every file that the traversal never visits because is_excluded_dir
\* pruned one of its ancestor directories is classified (false, excluded) by
\* should_include_file, so pruning never changes the set of included files;
\* and every directory name of the excluded-directory set is pruned.
C19_PruningOnlyOptimises ==
    /\ Walked =>
          \A f \in FilesUnder(folder_path) :
              (\A i \in 1..Len(visited) : visited[i] # f) =>
                  should_include_file(classifier, f, BaseName(f)) = <<FALSE, "excluded">>
    /\ \A d \in classifier.exclude_dirs : is_excluded_dir(classifier, d)

\* the category the walk recorded for an included file
RecordedCategory(filepath) ==
    LET i == CHOOSE i \in 1..Len(files_to_process) : files_to_process[i][1] = filepath
    IN  files_to_process[i][2]

\* the compression counters summed over the source files of `pairs`
RECURSIVE SourceCounters(_)
SourceCounters(pairs) ==
    IF pairs = <<>> THEN ZeroStats
    ELSE LET path == pairs[Len(pairs)][1]
             rest == SourceCounters(SubSeq(pairs, 1, Len(pairs) - 1))
         IN  IF RecordedCategory(path) = "source" /\ args.compress > 0
             THEN AddCompression(rest,
                      compress_file_content(ReadContent(faults[path], path),
                                            args.compress).stats)
             ELSE rest

\* C20: at every compression level the content of each included file whose
\* category is test, doc or config is emitted exactly as read; only files of
\* category source are passed to compress_file_content and contribute to the
\* aggregated compression counters.
C20_OnlySourceCompressed ==
    /\ \A i \in 1..Len(processed_files) :
           LET path == processed_files[i][1] IN
           RecordedCategory(path) \in {"test", "doc", "config"} =>
               processed_files[i][2] = ReadContent(faults[path], path)
    /\ \A i \in 1..Len(compress_log) : RecordedCategory(compress_log[i]) = "source"
    /\ JustReturned => stats.compression = SourceCounters(processed_files)

\* a run at level 3 wrote the doc, config and test files as they are on disk,
\* trailing spaces and test function included, and compressed main.py only
C20_Witness ==
    /\ pc = "done"
    /\ args.compress = 3
    /\ faults = AllOk
    /\ Len(processed_files) = 4
    /\ compress_log = <<JoinPath(RepoRoot, "main.py")>>
    /\ \E i \in 1..4 : processed_files[i] = <<JoinPath(RepoRoot, "README.md"),
                                              "# Title  \n\n\n\nText\n">>
    /\ \E i \in 1..4 :
          processed_files[i] = <<JoinPath(JoinPath(RepoRoot, "src"), "test_util.py"),
                                 "def test_b():\n    assert True  \n">>
    /\ stats.compression.original_lines = 8

\* the files a walk from `dir` comes to: those of the directory and of the
\* sub-directories that are not pruned
RECURSIVE WalkedFrom(_)
WalkedFrom(dir) ==
    LET kept == KeptDirs(NewClassifier, Listing(dir).dirs)
    IN  FilesIn(dir) \cup
        UNION {WalkedFrom(JoinPath(dir, kept[i])) : i \in 1..Len(kept)}

\* the relative paths a run over the tree at `root` includes, with their
\* categories
IncludedAt(root) ==
    {<<RelPath(f, root), CategoryOf(f)>> :
        f \in {g \in WalkedFrom(root) : CategoryOf(g) # "excluded"}}

\* the relative paths this run has included, with their categories
IncludedHere ==
    {<<RelPath(files_to_process[i][1], folder_path), files_to_process[i][2]>> :
        i \in 1..Len(files_to_process)}

\* C22: two runs of process_repository over identical sound trees at
\* different absolute root locations include the same relative paths with the
\* same categories; a parent directory named tmp does not change any file's
\* classification.
C22_InclusionIndependentOfRoot ==
    (Walked /\ folder_path \in TreeRoots /\ faults = AllOk) =>
        \A root \in TreeRoots : IncludedHere = IncludedAt(root)

(***************************************************************************)
(* Properties of the compression runs                                      *)
(***************************************************************************)

\* the result of the call at `level`, once made
Done(level) == Len(calls) >= level + 1

Result(level) == calls[level + 1]

Range(seq) == {seq[i] : i \in 1..Len(seq)}

\* the number of lines of a text, counted from its line breaks
LineCount(s) ==
    Cardinality({i \in BreakPositions(s) :
                    ~(Ch(s, i) = "\n" /\ i > 1 /\ Ch(s, i - 1) = "\r")})
    + (IF Len(s) > 0 /\ Len(s) \notin BreakPositions(s) THEN 1 ELSE 0)

\* C1: at level 0 the returned text is the content, unchanged, and the stats
\* report original_lines equal to the number of lines of the content.
C1_Level0Identity ==
    Done(0) =>
        /\ Result(0).out = content
        /\ Result(0).stats.original_lines = LineCount(content)

\* a level-0 call on a text that ends with a line break and has blank lines
C1_Witness ==
    /\ Done(0)
    /\ EndsWith(content, "\n")
    /\ "" \in Range(SplitLines(content))

\* the line count of the result at `level`: original_lines for level 0,
\* final_lines for the others
ResultLines(level) ==
    IF level = 0 THEN Result(0).stats.original_lines
    ELSE Result(level).stats.final_lines

\* C2: for every k in 1..4 the level-k output has no more lines than the
\* level-(k-1) output of the same input, counted as final_lines and as the
\* lines of the returned text; and final_lines <= original_lines.
C2_MonotonicShrinkage ==
    \A k \in 1..MaxLevel :
        Done(k) =>
            /\ ResultLines(k) <= ResultLines(k - 1)
            /\ LineCount(Result(k).out) <= LineCount(Result(k - 1).out)
            /\ Result(k).stats.final_lines <= Result(k).stats.original_lines

\* all five levels ran and every level removed lines
C2_Witness ==
    /\ Done(MaxLevel)
    /\ \A k \in 1..MaxLevel : ResultLines(k) < ResultLines(k - 1)

\* stage k alone, applied to a list of lines
StageOnly(k, lines) ==
    CASE k = 1 -> Level1(lines, ZeroStats).lines
      [] k = 2 -> Level2(lines, ZeroStats).lines
      [] k = 3 -> Level3(lines, ZeroStats).lines
      [] k = 4 -> Level4(lines, ZeroStats).lines

\* C3: for every k in 1..4 the lines of the level-k output are stage k alone
\* applied to the lines of the level-(k-1) output of the same input, and the
\* returned text is those lines joined.
C3_Cumulative ==
    \A k \in 1..MaxLevel :
        Done(k) =>
            /\ Result(k).lines = StageOnly(k, Result(k - 1).lines)
            /\ Result(k).out = JoinLines(StageOnly(k, Result(k - 1).lines))

\* all five levels ran, every stage changed the text, and stage 2 applied to
\* the original lines would have given another result
C3_Witness ==
    /\ Done(MaxLevel)
    /\ \A k \in 1..MaxLevel : Result(k).lines # Result(k - 1).lines
    /\ StageOnly(2, Result(0).lines) # Result(2).lines

\* ---- function bodies at level 2 (C6, C7) ----

\* the first line after i that ends the body span of the definition at i: the
\* first non-blank line indented no deeper than the definition, or the end
SpanEnd(lines, i) ==
    LET stops == {j \in (i + 1)..Len(lines) :
                     Strip(lines[j]) # "" /\ Indent(lines[j]) <= Indent(lines[i])}
    IN  IF stops = {} THEN Len(lines) + 1
        ELSE CHOOSE j \in stops : \A h \in stops : j <= h

\* the number of lines of the body span of the definition at i
SpanLen(lines, i) == SpanEnd(lines, i) - i - 1

DefLines(lines) == {i \in 1..Len(lines) : IsFunctionDef(lines[i])}

\* line i lies in the body span of an earlier function definition
InsideEarlierSpan(lines, i) ==
    \E h \in DefLines(lines) : h < i /\ i < SpanEnd(lines, h)

\* line i lies in the body span, of more than 10 lines, of an earlier definition
InsideLargeSpan(lines, i) ==
    \E h \in DefLines(lines) :
        h < i /\ i < SpanEnd(lines, h) /\ SpanLen(lines, h) > LargeBodyThreshold

\* the summary line the specification describes for a body of n lines
ExpectedSummary(defline, n) ==
    Spaces(Indent(defline) + 4) \o "# ... " \o ToString(n) \o " lines ..."

\* seq holds block as a contiguous run
HasRun(seq, block) ==
    \E p \in 1..(Len(seq) - Len(block) + 1) : SubSeq(seq, p, p + Len(block) - 1) = block

\* C6 as stated: at every level >= 2, every function definition whose body
\* span has N > 10 lines appears in the output as its definition line followed
\* by the summary line reporting N, and function_lines_compressed has grown by
\* N - 1.
C6_Original ==
    \A k \in 2..MaxLevel :
        Done(k) =>
            \A i \in DefLines(Result(1).lines) :
                LET L1 == Result(1).lines
                    n == SpanLen(L1, i)
                IN  n > LargeBodyThreshold =>
                        /\ HasRun(Result(k).lines, <<L1[i], ExpectedSummary(L1[i], n)>>)
                        /\ Result(k).stats.function_lines_compressed >= n - 1

\* C6 amended: in the level-2 output, every function definition that is not
\* inside the body span of an earlier function definition and whose body span
\* has N > 10 lines stands as its definition line followed by exactly one
\* summary line reporting N (indented 4 deeper) in place of the whole body,
\* between the level-2 results of the lines before it and of the lines after
\* its span; function_lines_compressed counts N - 1 for it, at every level >= 2.
C6_LargeFunctionCompacted ==
    Done(2) =>
        \A i \in DefLines(Result(1).lines) :
            LET L1 == Result(1).lines
                n == SpanLen(L1, i)
                before == Level2(SubSeq(L1, 1, i - 1), ZeroStats)
                after == Level2(SubSeq(L1, i + n + 1, Len(L1)), ZeroStats)
                counted == before.stats.function_lines_compressed + (n - 1)
                               + after.stats.function_lines_compressed
            IN  (n > LargeBodyThreshold /\ ~InsideEarlierSpan(L1, i)) =>
                    /\ Result(2).lines =
                           before.lines \o <<L1[i], ExpectedSummary(L1[i], n)>> \o after.lines
                    /\ \A k \in 2..MaxLevel :
                           Done(k) => Result(k).stats.function_lines_compressed = counted

\* a body of 14 lines was compacted at level 2, and the later levels ran on it
C6_Witness ==
    /\ Done(MaxLevel)
    /\ \E i \in DefLines(Result(1).lines) :
           /\ SpanLen(Result(1).lines, i) = 14
           /\ ~InsideEarlierSpan(Result(1).lines, i)
           /\ HasRun(Result(2).lines,
                     <<Result(1).lines[i], "    # ... 14 lines ...">>)
           /\ Result(2).stats.function_lines_compressed = 13

\* C7 as stated: every function definition whose body span has at most 10
\* lines is emitted by level 2 with every line of its span, unchanged and in
\* order.
C7_Original ==
    Done(2) =>
        \A i \in DefLines(Result(1).lines) :
            LET L1 == Result(1).lines
                n == SpanLen(L1, i)
            IN  n <= LargeBodyThreshold => HasRun(Result(2).lines, SubSeq(L1, i, i + n))

\* C7 amended: a function definition with a body span of at most 10 lines that
\* is not inside the body span, of more than 10 lines, of an earlier
\* definition is emitted by level 2 with every line of its span, unchanged and
\* in order, comment and debug lines included, and with no summary line: when
\* it is inside no earlier span at all, the level-2 output is the level-2
\* result of the lines before it, then the definition and its span verbatim,
\* then the level-2 result of the lines after the span, and none of the
\* level-2 counters counts a line of the span.
C7_SmallFunctionVerbatim ==
    Done(2) =>
        \A i \in DefLines(Result(1).lines) :
            LET L1 == Result(1).lines
                n == SpanLen(L1, i)
                before == Level2(SubSeq(L1, 1, i - 1), ZeroStats)
                after == Level2(SubSeq(L1, i + n + 1, Len(L1)), ZeroStats)
                st == Result(2).stats
            IN  n <= LargeBodyThreshold =>
                    /\ ~InsideLargeSpan(L1, i) => HasRun(Result(2).lines, SubSeq(L1, i, i + n))
                    /\ ~InsideEarlierSpan(L1, i) =>
                           /\ Result(2).lines = before.lines \o SubSeq(L1, i, i + n) \o after.lines
                           /\ st.comments_removed =
                                  before.stats.comments_removed + after.stats.comments_removed
                           /\ st.debug_statements_removed =
                                  before.stats.debug_statements_removed
                                      + after.stats.debug_statements_removed
                           /\ st.function_lines_compressed =
                                  before.stats.function_lines_compressed
                                      + after.stats.function_lines_compressed

\* level 2 kept a body of exactly 10 lines that holds a comment line and a
\* debug-print line
C7_Witness ==
    /\ Done(2)
    /\ \E i \in DefLines(Result(1).lines) :
           LET L1 == Result(1).lines
               body == SubSeq(L1, i + 1, i + SpanLen(L1, i))
           IN  /\ SpanLen(L1, i) = LargeBodyThreshold
               /\ ~InsideEarlierSpan(L1, i)
               /\ \E c \in Range(body) : IsRemovableComment(Strip(c))
               /\ \E d \in Range(body) : IsDebugStatement(d)
               /\ HasRun(Result(2).lines, SubSeq(L1, i, i + SpanLen(L1, i)))

\* ---- the TODO marker (C8) ----

TodoLine == "# TODO: fix this"

\* C8: a standalone line "# TODO: fix this" of the input is a line of the
\* level-2 output, and no line of the level-4 output of the same input holds
\* it.
C8_TodoSurvives2Dies4 ==
    TodoLine \in Range(SplitLines(content)) =>
        /\ Done(2) => TodoLine \in Range(Result(2).lines)
        /\ Done(4) =>
               /\ TodoLine \notin Range(Result(4).lines)
               /\ ~Contains(Result(4).out, TodoLine)

\* the marker follows a function whose body was compacted, and both levels ran
C8_Witness ==
    /\ Done(4)
    /\ TodoLine \in Range(SplitLines(content))
    /\ TodoLine \in Range(Result(2).lines)
    /\ Result(2).stats.function_lines_compressed > 0
    /\ Result(4).lines # <<>>

\* ---- docstrings and test functions at level 3 (C9, C10) ----

\* the lines of the documentation blocks of a list of lines, as the
\* specification delimits them: a line whose stripped form starts with a
\* triple quote opens a block; the block is that line alone when the marker
\* occurs on it again, otherwise it runs through the next line holding the marker
RECURSIVE DocBlockLines(_, _)
DocBlockLines(lines, i) ==
    IF i > Len(lines) THEN {}
    ELSE LET s == Strip(lines[i])
             q == IF StartsWith(s, DQ3) THEN DQ3
                  ELSE IF StartsWith(s, SQ3) THEN SQ3 ELSE ""
             closers == {j \in (i + 1)..Len(lines) : Contains(lines[j], q)}
             last == IF closers = {} THEN Len(lines)
                     ELSE CHOOSE j \in closers : \A h \in closers : j <= h
         IN  IF q = "" THEN DocBlockLines(lines, i + 1)
             ELSE IF Contains(SubSeq(s, Len(q) + 1, Len(s)), q)
                  THEN {i} \cup DocBlockLines(lines, i + 1)
             ELSE (i..last) \cup DocBlockLines(lines, last + 1)

\* C9: at level 3 every documentation block that reaches the stage (here: in
\* a text with no test function) is entirely absent from the output, a
\* multi-line block from its opening line through its closing line, and
\* docstrings_removed counts every line of every block (3 for a 3-line block).
C9_DocstringsRemoved ==
    (Done(3) /\ ~ \E t \in Range(Result(2).lines) : IsTestFunctionDef(t)) =>
        LET L2 == Result(2).lines
            blocks == DocBlockLines(L2, 1)
        IN  /\ Result(3).stats.docstrings_removed = Cardinality(blocks)
            /\ Len(Result(3).lines) = Len(L2) - Cardinality(blocks)
            /\ \A i \in blocks : L2[i] \notin Range(Result(3).lines)

\* the leading run of word characters of s
RECURSIVE WordPrefix(_)
WordPrefix(s) ==
    IF Len(s) = 0 \/ ~IsWordChar(Ch(s, 1)) THEN ""
    ELSE Ch(s, 1) \o WordPrefix(SubSeq(s, 2, Len(s)))

\* a function name the specification calls a test: it contains test_ or
\* _test, or begins with test and a capital letter
IsTestName(name) ==
    \/ Contains(name, "test_")
    \/ Contains(name, "_test")
    \/ (StartsWith(name, "test") /\ Len(name) >= 5 /\ Ch(name, 5) \in UpperSet)

\* a function definition line whose function name is a test name
IsNamedTestDef(line) ==
    LET rest == LStrip(line) IN
    \E w \in TestDefKeywords :
        /\ StartsWith(rest, w)
        /\ LET after == SubSeq(rest, Len(w) + 1, Len(rest)) IN
           /\ LeadingSpaces(after) >= 1
           /\ IsTestName(WordPrefix(LStrip(after)))

\* C10: at level 3 every function definition whose name contains test_ or
\* _test, or begins with test and a capital letter, is dropped with its whole
\* indentation-delimited span: no such definition is left in the level-3
\* output, and test_functions_removed is the number of lines of these spans.
C10_TestFunctionsRemoved ==
    Done(3) =>
        LET L2 == Result(2).lines
            tests == {i \in 1..Len(L2) : IsNamedTestDef(L2[i])}
            spans == UNION {i..(SpanEnd(L2, i) - 1) : i \in tests}
        IN  /\ \A line \in Range(Result(3).lines) : ~IsNamedTestDef(line)
            /\ Result(3).stats.test_functions_removed = Cardinality(spans)

\* the float nearest to (1 - final_lines/original_lines) * 100 taken as a
\* fraction, 100 * (original_lines - final_lines) / original_lines; 0 for an
\* empty input
StatedRatio(original_lines, final_lines) ==
    IF original_lines > 0
    THEN FloatDiv((original_lines - final_lines) * 100, original_lines)
    ELSE FloatZero

\* C11: at every level k >= 1 the stats satisfy lines_removed =
\* original_lines - final_lines and compression_ratio =
\* (1 - final_lines/original_lines) * 100, which is 0 for an empty input and
\* 30.0 for original_lines = 20 and final_lines = 14.
C11_RatioFormula ==
    \A k \in 1..MaxLevel :
        Done(k) =>
            LET st == Result(k).stats
            IN  /\ st.lines_removed = st.original_lines - st.final_lines
                /\ st.compression_ratio = StatedRatio(st.original_lines, st.final_lines)
                /\ (st.original_lines = 20 /\ st.final_lines = 14
                        => st.compression_ratio = FloatOfInt(30))

\* ---- comments at level 2 (C17) ----

\* the stripped form of the line starts with #, // or /*
IsCommentLine(line) ==
    \E m \in {"#", "//", "/*"} : StartsWith(Strip(line), m)

\* the upper-cased text holds one of the six markers
HasKeepMarker(line) ==
    \E kw \in {"TODO", "FIXME", "HACK", "BUG", "NOTE", "IMPORTANT"} :
        Contains(StrUpper(line), kw)

\* the lines the level-2 scan reaches from line i on: every line but those of
\* the body span of a function definition it has reached
RECURSIVE ReachedFrom(_, _)
ReachedFrom(lines, i) ==
    IF i > Len(lines) THEN <<>>
    ELSE <<i>> \o ReachedFrom(lines,
                    IF IsFunctionDef(lines[i]) /\ ~IsCommentLine(lines[i])
                           /\ ~IsDebugStatement(lines[i])
                    THEN SpanEnd(lines, i) ELSE i + 1)

\* what a reached line leaves in the output when comment lines are dropped
\* exactly when they hold no marker
LeftBy(lines, i) ==
    IF IsCommentLine(lines[i])
    THEN (IF HasKeepMarker(lines[i]) THEN <<lines[i]>> ELSE <<>>)
    ELSE IF IsDebugStatement(lines[i]) THEN <<>>
    ELSE IF IsFunctionDef(lines[i]) THEN FunctionBlock(lines, i).emit
    ELSE <<lines[i]>>

RECURSIVE LeftByEach(_, _)
LeftByEach(lines, reached) ==
    IF reached = <<>> THEN <<>>
    ELSE LeftBy(lines, reached[1]) \o LeftByEach(lines, Tail(reached))

\* C17: every line reached by the level-2 scan whose stripped form starts
\* with #, // or /* is dropped if and only if its upper-cased text contains
\* none of TODO, FIXME, HACK, BUG, NOTE, IMPORTANT, and comments_removed is
\* the number of lines so dropped.
C17_CommentRule ==
    Done(2) =>
        LET L1 == Result(1).lines
            reached == ReachedFrom(L1, 1)
            dropped == {i \in Range(reached) :
                           IsCommentLine(L1[i]) /\ ~HasKeepMarker(L1[i])}
        IN  /\ Result(2).lines = LeftByEach(L1, reached)
            /\ Result(2).stats.comments_removed = Cardinality(dropped)

\* level 2 dropped three plain comment lines, one of each kind, and kept the
\* two whose text holds a marker in lower case
C17_Witness ==
    /\ Done(2)
    /\ content = CommentFixture
    /\ Result(2).stats.comments_removed = 3
    /\ Result(2).lines = <<"# note: keep", "  # debug only", "x = 1">>

\* ---- line comments at level 4 (C18) ----

\* C18: for every input, no line of the level-4 output contains a
\* line-comment marker, # or //.
C18_NoLineCommentMarkers ==
    Done(4) =>
        \A line \in Range(Result(4).lines) :
            ~Contains(line, "#") /\ ~Contains(line, "//")

\* ---- the removal counters (C21) ----

\* the six counters of dropped lines
RemovalCounters ==
    {"empty_lines_removed", "comments_removed", "debug_statements_removed",
     "function_lines_compressed", "test_functions_removed", "docstrings_removed"}

\* the sum of the six counters of dropped lines
CountedRemovals(st) ==
    st.empty_lines_removed + st.comments_removed + st.debug_statements_removed
        + st.function_lines_compressed + st.test_functions_removed
        + st.docstrings_removed

\* C21: for every input and every level in 1..3, lines_removed is the sum of
\* empty_lines_removed, comments_removed, debug_statements_removed,
\* function_lines_compressed, test_functions_removed and docstrings_removed,
\* and every counter is non-negative.
C21_CountersAccountForRemovals ==
    \A k \in 1..3 :
        Done(k) =>
            LET st == Result(k).stats
            IN  /\ st.lines_removed = CountedRemovals(st)
                /\ \A c \in RemovalCounters : st[c] >= 0

\* level 3 dropped 16 of the 21 lines of a text, and each of the six counters
\* counted some of them
C21_Witness ==
    /\ Done(3)
    /\ content = CounterFixture
    /\ \A c \in RemovalCounters : Result(3).stats[c] > 0
    /\ Result(3).stats.lines_removed = 16
    /\ Result(3).lines = <<"x = 1", "", "def f():", "    # ... 11 lines ...", "y = 2">>

\* ---- whitespace at level 1 (C16) ----

\* only whitespace, or nothing
IsBlankLine(line) == \A i \in 1..Len(line) : IsSpace(Ch(line, i))

\* `short` is `long` without the whitespace at its end
IsRightStripOf(short, long) ==
    /\ Len(short) <= Len(long)
    /\ SubSeq(long, 1, Len(short)) = short
    /\ IsBlankLine(SubSeq(long, Len(short) + 1, Len(long)))
    /\ (short = "" \/ ~IsSpace(Ch(short, Len(short))))

\* C16: in the level-1 output no line has trailing whitespace and no two
\* consecutive lines are both blank; its non-blank lines are the input's
\* non-blank lines, right-stripped, in the same order; empty_lines_removed is
\* the number of blank lines dropped, original_lines - final_lines.
C16_WhitespaceNormalized ==
    Done(1) =>
        LET input == SplitLines(content)
            output == Result(1).lines
            st == Result(1).stats
            kept_in == SelectSeq(input, LAMBDA line : ~IsBlankLine(line))
            kept_out == SelectSeq(output, LAMBDA line : ~IsBlankLine(line))
        IN  /\ \A i \in 1..Len(output) :
                   output[i] = "" \/ ~IsSpace(Ch(output[i], Len(output[i])))
            /\ \A i \in 1..(Len(output) - 1) :
                   ~(IsBlankLine(output[i]) /\ IsBlankLine(output[i + 1]))
            /\ Len(kept_out) = Len(kept_in)
            /\ \A i \in 1..Len(kept_out) : IsRightStripOf(kept_out[i], kept_in[i])
            /\ st.empty_lines_removed = st.original_lines - st.final_lines
            /\ st.empty_lines_removed
                  = (Len(input) - Len(kept_in)) - (Len(output) - Len(kept_out))
            /\ Result(1).out = JoinLines(output)

\* a text with a line ending in spaces and a run of three blank lines, one of
\* them of spaces only, was compressed at level 1 and lost two lines
C16_Witness ==
    /\ Done(1)
    /\ \E i \in 1..(Len(SplitLines(content)) - 3) :
          /\ SplitLines(content)[i] = "x = 1  "
          /\ \A j \in (i + 1)..(i + 3) : IsBlankLine(SplitLines(content)[j])
    /\ Result(1).stats.empty_lines_removed = 2
    /\ Result(1).lines[1] = "x = 1"

(***************************************************************************)
(* Properties of the classification runs                                   *)
(***************************************************************************)

\* some part of the path is, case-insensitively, an excluded directory name
HasExcludedSegment(filepath) ==
    \E part \in PathParts(filepath) :
        \E d \in NewClassifier.exclude_dirs : StrLower(part) = StrLower(d)

\* the rules of the specification, in its order, each with its outcome; names
\* and extensions are compared case-insensitively except on the manifest and
\* dotfile allow-lists
ClassificationRules(filepath, filename) ==
    LET lower == StrLower(filename)
        source == SplitExt(lower) \in {StrLower(e) : e \in NewClassifier.source_code_extensions}
    IN
    << [applies |-> HasExcludedSegment(filepath), outcome |-> <<FALSE, "excluded">>],
       [applies |-> \E g \in NewClassifier.exclude_patterns : FnMatch(lower, StrLower(g)),
        outcome |-> <<FALSE, "excluded">>],
       [applies |-> source /\ \E t \in {"test_", "_test.", ".test.", ".spec.", "_spec."} :
                                  Contains(lower, t),
        outcome |-> <<TRUE, "test">>],
       [applies |-> source, outcome |-> <<TRUE, "source">>],
       [applies |-> filename \in {"requirements.txt", "package.json", "Dockerfile",
                                  "docker-compose.yml", "Makefile", "setup.py",
                                  "pyproject.toml"},
        outcome |-> <<TRUE, "config">>],
       [applies |-> lower \in {"readme.md", "readme.rst", "readme.txt"},
        outcome |-> <<TRUE, "doc">>],
       [applies |-> filename \in {".gitignore", ".dockerignore", ".editorconfig"}
                       /\ Occurrences(filepath, "/") = {},
        outcome |-> <<TRUE, "config">>],
       [applies |-> TRUE, outcome |-> <<FALSE, "excluded">>] >>

\* the outcome of the first rule that applies
FirstMatch(rules) ==
    LET hits == {i \in 1..Len(rules) : rules[i].applies}
    IN  rules[CHOOSE i \in hits : \A j \in hits : i <= j].outcome

\* C4: every call of should_include_file(path, filename) returns the outcome
\* of the first matching rule of the specification's list, so repeated calls
\* with the same arguments return the same result, and the classifier's state
\* is the one it was constructed with.
C4_FirstMatchingRule ==
    /\ \A i \in 1..Len(cresults) :
           cresults[i] = FirstMatch(ClassificationRules(cpath, cname))
    /\ \A i, j \in 1..Len(cresults) : cresults[i] = cresults[j]
    /\ (cresults # <<>>) => classifier = NewClassifier

\* a minified script, which an exclude glob and a source extension both
\* match, was classified twice outside every excluded directory
C4_Witness ==
    /\ Len(cresults) >= 2
    /\ cname = "app.min.js"
    /\ ~HasExcludedSegment(cpath)
    /\ cresults[1] = <<FALSE, "excluded">>

\* C5: when any part of the path is, case-insensitively, an excluded
\* directory name, should_include_file returns (false, excluded) whatever the
\* filename is.
C5_ExclusionPrecedence ==
    \A i \in 1..Len(cresults) :
        HasExcludedSegment(cpath) => cresults[i] = <<FALSE, "excluded">>

\* a source file under a directory named Build, and under no other excluded
\* directory, was classified
C5_Witness ==
    /\ cresults # <<>>
    /\ cname = "main.py"
    /\ "Build" \in PathParts(cpath)
    /\ "node_modules" \notin PathParts(cpath)
    /\ cresults[1] = <<FALSE, "excluded">>

====
